---------------------------- MODULE Spec2Model ----------------------------
(***************************************************************************)
(* Model of the network-monitor-agent: the remediation executor with its   *)
(* cooldown ledger (src/remediation/actions.py), the monitoring cycle and  *)
(* its periodic loop (src/main.py), the rule-based fallback of the         *)
(* decision engine (src/ai/decision_engine.py) and the control surface     *)
(* (src/discord_bot/agent_controller.py).                                  *)
(*                                                                         *)
(* Two worker threads can run a monitoring cycle: the periodic loop        *)
(* ("periodic", main.py:248) and a manual check started from the bot       *)
(* ("manual", agent_controller.py:70).  Both are handed to the default     *)
(* thread pool by run_in_executor, so their steps interleave.              *)
(***************************************************************************)
EXTENDS Integers, Sequences, FiniteSets, TLC

VARIABLES
    now,              \* the wall clock, time.time(), in seconds
    attempt_history,  \* RemediationActions.attempt_history: key -> <<last_attempt, count>>
    accepted,         \* history variable: key -> times of its latest recorded attempts
    call,             \* per thread: the execute_action call it is in, if any
    inputs,           \* the actions the direct callers of SpecExec pass to execute_action
    auto_fix,         \* NetworkMonitorAgent.auto_fix
    allowed_actions,  \* NetworkMonitorAgent.allowed_actions (configuration)
    bot_enabled,      \* NetworkMonitorAgent.bot_enabled (configuration)
    daily_stats,      \* NetworkMonitorAgent.daily_stats, the five counters
    issues_history,   \* AgentController.issues_history
    cyc,              \* per thread: where it is in run_monitoring_cycle, and its locals
    started,          \* number of cycles started so far
    last_summary,     \* NetworkMonitorAgent.last_summary, as a clock value
    summaries,        \* the daily summaries notified so far
    loop,             \* where the periodic loop is in its iteration
    analysis,         \* the analyze_issues call a direct caller of SpecAnalyze makes
    running,          \* NetworkMonitorAgent.running
    main,             \* where run or run_async is
    surface,          \* the Discord bot: "off", "on" (taking commands) or "closed"
    answer            \* the answer to the latest command of the control surface

execVars == <<now, attempt_history, accepted, call>>
lifeVars == <<running, main, surface, answer>>
harnessVars == <<inputs, analysis, lifeVars>>
loopVars == <<last_summary, summaries, loop>>
agentVars == <<auto_fix, allowed_actions, bot_enabled, daily_stats, issues_history,
               cyc, started, last_summary, summaries, loop>>
vars == <<now, attempt_history, accepted, call, inputs, auto_fix, allowed_actions,
          bot_enabled, daily_stats, issues_history, cyc, started, last_summary,
          summaries, loop, analysis, running, main, surface, answer>>

----------------------------------------------------------------------------
(* Bounds of the model *)

\* the clock advances MaxTicks times at most
MaxTicks == 2

\* cycles started in a run, by the periodic loop and by manual checks together
MaxCycles == 2

----------------------------------------------------------------------------
(* Program constants *)

\* config.get('max_attempts', 3), config.get('cooldown', 300)
max_attempts == 3
cooldown == 300

\* the daily summary is due after this many seconds (main.py:254)
SummaryPeriod == 86400

\* the clock advances half a cooldown window at a time
TickStep == cooldown \div 2

Threads == {"periodic", "manual"}

\* Python's None, as the value of a missing parameter
None == "None"

\* the action kinds execute_action dispatches on (actions.py:31-59)
KnownKinds == {"restart_service", "clear_cache", "kill_hung_process",
               "restart_container", "clear_disk_space", "remount",
               "unmount_remount", "enable_automation", "reload_integration",
               "alert_only"}

\* parameter values that are mappings (a mount configuration), with their fields
MountConfigs == [x \in {"cfg:nfs"} |-> [path |-> "/mnt/nfs", source |-> "nas:/export"]]

IsDict(v) == v \in DOMAIN MountConfigs

\* An action is [action |-> kind, action_params |-> params, severity |-> s]
\* (the issue, root_cause and reasoning texts are left out); params is a Python
\* dict, kept as the sequence of its <<key, value>> items in insertion order,
\* which is what str(params) prints.
MkAction(kind, params, sev) ==
    [action |-> kind, action_params |-> params, severity |-> sev]

NoAction == MkAction("", <<>>, "")

RECURSIVE ParamGet(_, _)
\* params.get(k): the value of key k, None when absent
ParamGet(params, k) ==
    IF params = <<>> THEN None
    ELSE IF Head(params)[1] = k THEN Head(params)[2]
    ELSE ParamGet(Tail(params), k)

\* a falsy Python value: None or the empty string
Falsy(v) == v \in {None, ""}

\* key = f"{action_type}_{str(params)}" (actions.py:286 and :388)
CooldownKey(a) == <<a.action, a.action_params>>

----------------------------------------------------------------------------
(* RemediationActions *)

CooldownMsg == "in cooldown period"
UnknownMsg == "Unknown action type"
AlertOnlyMsg == "Alert only - no action taken"

\* a cooldown check that never looks at the time passed
CheckCooldown_Permanent(h, t, key) ==
    IF key \in DOMAIN h
    THEN ~(h[key][2] >= max_attempts)
    ELSE TRUE

\* a cooldown check that lets the max_attempts-th repeat through
CheckCooldown_Late(h, t, key) ==
    IF key \in DOMAIN h
    THEN ~(h[key][2] > max_attempts /\ t - h[key][1] < cooldown)
    ELSE TRUE

\* _check_cooldown: TRUE when the action may run, FALSE when it is in cooldown
CheckCooldown(h, t, key) ==
    IF key \in DOMAIN h
    THEN ~(h[key][2] >= max_attempts /\ t - h[key][1] < cooldown)
    ELSE TRUE

\* a record step that starts the count again only when more than the window
\* has passed
AttemptValue_LateReset(seen, t) ==
    IF seen # <<>> /\ t - seen[1] <= cooldown
    THEN <<t, seen[2] + 1>>
    ELSE <<t, 1>>

\* a record step that never starts the count again
AttemptValue_NoReset(seen, t) ==
    IF seen # <<>> THEN <<t, seen[2] + 1>> ELSE <<t, 1>>

\* _record_attempt, the value stored for the key: seen is the entry read
\* (<<>> when the key is absent), t is current_time
AttemptValue(seen, t) ==
    IF seen # <<>> /\ t - seen[1] < cooldown
    THEN <<t, seen[2] + 1>>
    ELSE <<t, 1>>

\* h with h[key] = v
Store(h, key, v) == [k \in DOMAIN h \cup {key} |-> IF k = key THEN v ELSE h[k]]

\* a dispatch table without the alert_only branch
OperationOf_NoAlert(kind) ==
    IF kind \in KnownKinds \ {"alert_only", "kill_hung_process"} THEN kind
    ELSE IF kind = "kill_hung_process" THEN "kill_process"
    ELSE "unknown"

\* the operation execute_action dispatches to, "none" for alert_only,
\* "unknown" for a kind outside the table
OperationOf(kind) ==
    CASE kind = "restart_service" -> "restart_service"
      [] kind = "clear_cache" -> "clear_cache"
      [] kind = "kill_hung_process" -> "kill_process"
      [] kind = "restart_container" -> "restart_container"
      [] kind = "clear_disk_space" -> "clear_disk_space"
      [] kind = "remount" -> "remount"
      [] kind = "unmount_remount" -> "unmount_remount"
      [] kind = "enable_automation" -> "enable_automation"
      [] kind = "reload_integration" -> "reload_integration"
      [] kind = "alert_only" -> "none"
      [] OTHER -> "unknown"

\* What the operation does with the parameters before any external command:
\* "reject" (returns failure at once), "raise" (an exception leaves
\* execute_action), "run" (external commands are issued).
Precheck(a) ==
    LET p == a.action_params
        cfg == ParamGet(p, "mount_config")
    IN CASE a.action = "restart_service" ->
              IF Falsy(ParamGet(p, "service")) THEN "reject" ELSE "run"
         [] a.action = "clear_cache" ->
              IF ParamGet(p, "type") \in {None, "system"} THEN "run" ELSE "reject"
         [] a.action = "kill_hung_process" ->
              IF Falsy(ParamGet(p, "pid")) THEN "reject" ELSE "run"
         [] a.action = "restart_container" ->
              IF Falsy(ParamGet(p, "container")) THEN "reject" ELSE "run"
         [] a.action = "clear_disk_space" -> "run"
         [] a.action = "remount" ->
              IF Falsy(cfg) THEN "reject"
              ELSE IF ~IsDict(cfg) THEN "raise"
              ELSE IF Falsy(MountConfigs[cfg].path) THEN "reject" ELSE "run"
         [] a.action = "unmount_remount" ->
              IF Falsy(cfg) THEN "reject"
              ELSE IF ~IsDict(cfg) THEN "raise"
              ELSE IF Falsy(MountConfigs[cfg].path) \/ Falsy(MountConfigs[cfg].source)
                   THEN "reject" ELSE "run"
         [] a.action = "enable_automation" ->
              IF Falsy(ParamGet(p, "entity_id")) \/ Falsy(ParamGet(p, "url"))
                 \/ Falsy(ParamGet(p, "token")) THEN "reject" ELSE "run"
         [] a.action = "reload_integration" ->
              IF Falsy(ParamGet(p, "integration_id")) \/ Falsy(ParamGet(p, "url"))
                 \/ Falsy(ParamGet(p, "token")) THEN "reject" ELSE "run"
         [] OTHER -> "reject"

\* the results an operation that runs can report: clear_disk_space reports
\* success whatever its steps did, the others report what the system answered
RunResults(op) == IF op = "clear_disk_space" THEN {TRUE} ELSE BOOLEAN

NoCycle == [pc |-> "idle", runs |-> <<>>, invoked |-> <<>>, results |-> <<>>,
            issues |-> <<>>, actions |-> <<>>, idx |-> 0, executed |-> <<>>,
            routed |-> <<>>, snap |-> <<>>]

NoCall == [stage |-> "none", action |-> NoAction, expired |-> FALSE,
           op |-> "none", ok |-> FALSE, msg |-> ""]

InCall(c) == call[c].stage \in {"check", "record", "dispatch"}

\* execute_action is entered with action a
Enter(c, a) == [NoCall EXCEPT !.stage = "check", !.action = a]

\* a cooldown check that counts the call it refuses
ExecCheck_Counting(c) ==
    /\ call[c].stage = "check"
    /\ LET key == CooldownKey(call[c].action)
       IN IF CheckCooldown(attempt_history, now, key)
          THEN /\ call' = [call EXCEPT ![c].stage = "record",
                                 ![c].expired = (key \in DOMAIN attempt_history
                                       /\ now - attempt_history[key][1] >= cooldown)]
               /\ UNCHANGED attempt_history
          ELSE /\ call' = [call EXCEPT ![c].stage = "returned",
                                       ![c].ok = FALSE, ![c].msg = CooldownMsg]
               /\ attempt_history' =
                     Store(attempt_history, key, AttemptValue(attempt_history[key], now))
    /\ UNCHANGED <<now, accepted>>

\* execute_action, lines 23-25: the cooldown check; in cooldown it returns
\* failure at once
ExecCheck(c) ==
    /\ call[c].stage = "check"
    /\ LET key == CooldownKey(call[c].action)
       IN IF CheckCooldown(attempt_history, now, key)
          THEN call' = [call EXCEPT ![c].stage = "record",
                            ![c].expired = (key \in DOMAIN attempt_history
                                  /\ now - attempt_history[key][1] >= cooldown)]
          ELSE call' = [call EXCEPT ![c].stage = "returned",
                                    ![c].ok = FALSE, ![c].msg = CooldownMsg]
    /\ UNCHANGED <<now, attempt_history, accepted>>

\* the latest max_attempts recorded attempt times of a key
Latest(s) == IF Len(s) > max_attempts THEN Tail(s) ELSE s

\* a record step that skips the kinds outside the dispatch table
ExecRecord_KnownOnly(c) ==
    /\ call[c].stage = "record"
    /\ LET key == CooldownKey(call[c].action)
           seen == IF key \in DOMAIN attempt_history THEN attempt_history[key] ELSE <<>>
           old == IF key \in DOMAIN accepted THEN accepted[key] ELSE <<>>
       IN IF call[c].action.action \in KnownKinds
          THEN /\ attempt_history' = Store(attempt_history, key, AttemptValue(seen, now))
               /\ accepted' = Store(accepted, key, Latest(Append(old, now)))
          ELSE UNCHANGED <<attempt_history, accepted>>
    /\ call' = [call EXCEPT ![c].stage = "dispatch"]
    /\ UNCHANGED now

\* execute_action, line 28: _record_attempt stores the key's new entry
ExecRecord(c) ==
    /\ call[c].stage = "record"
    /\ LET key == CooldownKey(call[c].action)
           seen == IF key \in DOMAIN attempt_history THEN attempt_history[key] ELSE <<>>
           old == IF key \in DOMAIN accepted THEN accepted[key] ELSE <<>>
       IN /\ attempt_history' = Store(attempt_history, key, AttemptValue(seen, now))
          /\ accepted' = Store(accepted, key, Latest(Append(old, now)))
    /\ call' = [call EXCEPT ![c].stage = "dispatch"]
    /\ UNCHANGED now

\* execute_action, lines 30-62: the dispatch and the operation
ExecDispatch(c) ==
    /\ call[c].stage = "dispatch"
    /\ LET a == call[c].action
           op == OperationOf(a.action)
       IN CASE op = "none" ->
                 call' = [call EXCEPT ![c].stage = "returned",
                                      ![c].ok = TRUE, ![c].msg = AlertOnlyMsg]
            [] op = "unknown" ->
                 call' = [call EXCEPT ![c].stage = "returned",
                                      ![c].ok = FALSE, ![c].msg = UnknownMsg]
            [] OTHER ->
                 CASE Precheck(a) = "reject" ->
                        call' = [call EXCEPT ![c].stage = "returned",
                                   ![c].ok = FALSE, ![c].msg = "missing parameter"]
                   [] Precheck(a) = "raise" ->
                        call' = [call EXCEPT ![c].stage = "raised",
                                   ![c].ok = FALSE, ![c].msg = "exception"]
                   [] OTHER ->
                        \E ok \in RunResults(op) :
                            call' = [call EXCEPT ![c].stage = "returned",
                                       ![c].op = op, ![c].ok = ok,
                                       ![c].msg = IF ok THEN "done" ELSE "failed"]
    /\ UNCHANGED <<now, attempt_history, accepted>>

\* time passes
Tick ==
    /\ now + TickStep <= MaxTicks * TickStep
    /\ now' = now + TickStep
    /\ UNCHANGED <<attempt_history, accepted, call>>

----------------------------------------------------------------------------
(* Health records, monitors and the decision engine *)

\* r.get(f): the field's value, None when the record has no such field
RecGet(r, f) == IF f \in DOMAIN r THEN r[f] ELSE None

\* r.get('healthy', True)
Healthy(r) == IF "healthy" \in DOMAIN r THEN r.healthy ELSE TRUE

IsUnhealthy(r) == ~Healthy(r)

\* issues = [r for r in all_results if not r.get('healthy', True)]
Unhealthy(results) == SelectSeq(results, IsUnhealthy)

\* a fallback that drops a mount issue whose remedy is not allowed
FallbackFor_MountOmitted(issue, allowed) ==
    LET metric == RecGet(issue, "metric")
    IN IF metric = "service_status" /\ "restart_service" \in allowed
       THEN <<MkAction("restart_service",
                       <<<<"service", RecGet(issue, "service")>>>>, "high")>>
       ELSE IF /\ metric = "disk_usage"
               /\ (IF "value" \in DOMAIN issue THEN issue.value ELSE 0) > 90
               /\ "clear_disk_space" \in allowed
       THEN <<MkAction("clear_disk_space",
                       <<<<"partition", RecGet(issue, "partition")>>>>, "high")>>
       ELSE IF metric = "network_ping"
       THEN <<MkAction("alert_only", <<>>, "medium")>>
       ELSE IF metric = "web_endpoint"
       THEN <<MkAction("alert_only", <<>>, "high")>>
       ELSE IF metric = "mount_status"
       THEN IF RecGet(issue, "issue") = "stale_mount" /\ "remount" \in allowed
            THEN <<MkAction("remount",
                            <<<<"mount_config", RecGet(issue, "config")>>>>, "high")>>
            ELSE IF RecGet(issue, "issue") = "not_mounted" /\ "unmount_remount" \in allowed
            THEN <<MkAction("unmount_remount",
                            <<<<"mount_config", RecGet(issue, "config")>>>>, "high")>>
            ELSE IF RecGet(issue, "issue") \in {"stale_mount", "not_mounted"}
            THEN <<>>
            ELSE <<MkAction("alert_only", <<>>, "high")>>
       ELSE <<>>

\* what _fallback_analysis appends for one issue: a sequence of zero or one action
FallbackFor(issue, allowed) ==
    LET metric == RecGet(issue, "metric")
    IN IF metric = "service_status" /\ "restart_service" \in allowed
       THEN <<MkAction("restart_service",
                       <<<<"service", RecGet(issue, "service")>>>>, "high")>>
       ELSE IF /\ metric = "disk_usage"
               /\ (IF "value" \in DOMAIN issue THEN issue.value ELSE 0) > 90
               /\ "clear_disk_space" \in allowed
       THEN <<MkAction("clear_disk_space",
                       <<<<"partition", RecGet(issue, "partition")>>>>, "high")>>
       ELSE IF metric = "network_ping"
       THEN <<MkAction("alert_only", <<>>, "medium")>>
       ELSE IF metric = "web_endpoint"
       THEN <<MkAction("alert_only", <<>>, "high")>>
       ELSE IF metric = "mount_status"
       THEN IF RecGet(issue, "issue") = "stale_mount" /\ "remount" \in allowed
            THEN <<MkAction("remount",
                            <<<<"mount_config", RecGet(issue, "config")>>>>, "high")>>
            ELSE IF RecGet(issue, "issue") = "not_mounted" /\ "unmount_remount" \in allowed
            THEN <<MkAction("unmount_remount",
                            <<<<"mount_config", RecGet(issue, "config")>>>>, "high")>>
            ELSE <<MkAction("alert_only", <<>>, "high")>>
       ELSE <<>>

RECURSIVE FallbackAnalysis(_, _)
\* _fallback_analysis(issues, allowed_actions)
FallbackAnalysis(issues, allowed) ==
    IF issues = <<>> THEN <<>>
    ELSE FallbackFor(Head(issues), allowed) \o FallbackAnalysis(Tail(issues), allowed)

A_restart == MkAction("restart_service", <<<<"service", "nginx">>>>, "high")
A_alert == MkAction("alert_only", <<>>, "high")
A_unknown == MkAction("reboot_host", <<>>, "critical")
\* a remount whose mount_config is a path string instead of a mapping
A_bad == MkAction("remount", <<<<"mount_config", "/mnt/nfs">>>>, "high")

\* the action lists the advisory backend answers with, in this model
BackendReplies == {<<A_restart, A_alert>>, <<A_bad>>}

\* a JSON value that is no object, such as the text "ok" between quotes
Scalar == [scalar |-> "ok"]

\* v has a .get method: it is a dict
IsObject(v) == "scalar" \notin DOMAIN v

\* What one call of the advisory backend (_call_ollama, _call_openai,
\* _call_anthropic) does: it raises, or it returns a content, which is
\*   "list"   the JSON text of a list of actions (value: the list)
\*   "fenced" the same inside a ``` block
\*   "value"  the JSON text of one value that is no list (value: that value)
\*   "text"   a text that is not JSON
\*   "none"   no text at all (None)
\* "unserializable" stands for issues that json.dumps cannot write, so that
\* building the prompt raises before the backend is called.
BackendBehaviours ==
    {[kind |-> "list", value |-> reply] : reply \in BackendReplies}
    \cup {[kind |-> "fenced", value |-> reply] : reply \in BackendReplies}
    \cup {[kind |-> "value", value |-> v] : v \in {Scalar}}
    \cup {[kind |-> k, value |-> <<>>] : k \in {"text", "none", "error", "unserializable"}}

\* _parse_ai_response(response): [raised, actions]. None has no strip(), which
\* raises AttributeError; json.loads of a text that is not JSON raises
\* JSONDecodeError, the one exception caught here; a parsed value that is not a
\* list is put into a list of one element.
ParseAiResponse(response) ==
    CASE response.kind = "none" -> [raised |-> TRUE, actions |-> <<>>]
      [] response.kind = "text" -> [raised |-> FALSE, actions |-> <<>>]
      [] response.kind \in {"list", "fenced"} -> [raised |-> FALSE, actions |-> response.value]
      [] OTHER -> [raised |-> FALSE, actions |-> <<response.value>>]

\* an analyze_issues that asks the backend whatever the records are
AnalyzeWith_NoFilter(results, allowed, backend) ==
    IF backend.kind = "unserializable"
    THEN [raised |-> TRUE, actions |-> <<>>, calls |-> 0, fallback |-> FALSE]
    ELSE IF backend.kind = "error" \/ ParseAiResponse(backend).raised
    THEN [raised |-> FALSE, actions |-> FallbackAnalysis(Unhealthy(results), allowed),
          calls |-> 1, fallback |-> TRUE]
    ELSE [raised |-> FALSE, actions |-> ParseAiResponse(backend).actions,
          calls |-> 1, fallback |-> FALSE]

\* an analyze_issues that asks the backend a second time when the call failed
AnalyzeWith_Retry(results, allowed, backend) ==
    IF Unhealthy(results) = <<>>
    THEN [raised |-> FALSE, actions |-> <<>>, calls |-> 0, fallback |-> FALSE]
    ELSE IF backend.kind = "unserializable"
    THEN [raised |-> TRUE, actions |-> <<>>, calls |-> 0, fallback |-> FALSE]
    ELSE IF backend.kind = "error" \/ ParseAiResponse(backend).raised
    THEN [raised |-> FALSE, actions |-> FallbackAnalysis(Unhealthy(results), allowed),
          calls |-> 2, fallback |-> TRUE]
    ELSE [raised |-> FALSE, actions |-> ParseAiResponse(backend).actions,
          calls |-> 1, fallback |-> FALSE]

\* analyze_issues(all_results, allowed_actions) with a backend that behaves as
\* said: [raised |-> an exception leaves it, actions |-> the list returned,
\* calls |-> the number of backend calls made, fallback |-> _fallback_analysis
\* was called]
\*   lines 41-44: no unhealthy record, [] at once
\*   line 47: the prompt is built outside the try
\*   lines 50-62: one backend call, then _parse_ai_response
\*   lines 64-67: any exception of the two leads to _fallback_analysis
AnalyzeWith(results, allowed, backend) ==
    IF Unhealthy(results) = <<>>
    THEN [raised |-> FALSE, actions |-> <<>>, calls |-> 0, fallback |-> FALSE]
    ELSE IF backend.kind = "unserializable"
    THEN [raised |-> TRUE, actions |-> <<>>, calls |-> 0, fallback |-> FALSE]
    ELSE IF backend.kind = "error" \/ ParseAiResponse(backend).raised
    THEN [raised |-> FALSE, actions |-> FallbackAnalysis(Unhealthy(results), allowed),
          calls |-> 1, fallback |-> TRUE]
    ELSE [raised |-> FALSE, actions |-> ParseAiResponse(backend).actions,
          calls |-> 1, fallback |-> FALSE]

\* analyze_issues(all_results, allowed_actions): the results it can produce
AnalyzeIssues(results, allowed) ==
    {AnalyzeWith(results, allowed, backend) : backend \in BackendBehaviours}

\* no analyze_issues call is being made by a direct caller
NoAnalysis == [pc |-> "idle", results |-> <<>>, allowed |-> {},
               backend |-> [kind |-> "error", value |-> <<>>],
               out |-> [raised |-> FALSE, actions |-> <<>>, calls |-> 0, fallback |-> FALSE]]

cpuOK == [metric |-> "cpu_usage", healthy |-> TRUE, message |-> "CPU usage normal"]
pingOK == [metric |-> "network_ping", healthy |-> TRUE, message |-> "gateway reachable"]
svcDown == [metric |-> "service_status", healthy |-> FALSE,
            message |-> "nginx inactive", service |-> "nginx"]

\* self.monitors, in order, and what run_checks of each can return
Monitors == <<"SystemMonitor", "NetworkMonitor">>
MonitorOutputs == [SystemMonitor |-> {<<cpuOK>>, <<svcDown>>},
                   NetworkMonitor |-> {<<pingOK>>}]

MonitorSet == {Monitors[i] : i \in 1..Len(Monitors)}

\* what one call of monitor.run_checks() does: it raises, or returns records
RunsOf(m) ==
    {[name |-> m, raised |-> TRUE, records |-> <<>>]}
    \cup {[name |-> m, raised |-> FALSE, records |-> recs] : recs \in MonitorOutputs[m]}

\* what the run_checks calls of one cycle do, one for each of self.monitors
MonitorRuns ==
    {runs \in [1..Len(Monitors) -> UNION {RunsOf(m) : m \in MonitorSet}] :
        \A i \in 1..Len(Monitors) : runs[i] \in RunsOf(Monitors[i])}

\* a collecting loop in which a raising monitor discards what was collected
CollectStep_Discarding(acc, run) ==
    [results |-> IF run.raised THEN <<>> ELSE acc.results \o run.records,
     invoked |-> Append(acc.invoked, run.name)]

\* main.py:168-174, one turn of the loop: run_checks is called and its records
\* are added to all_results; when it raises, the error is logged and
\* all_results stays as it is
CollectStep(acc, run) ==
    [results |-> IF run.raised THEN acc.results ELSE acc.results \o run.records,
     invoked |-> Append(acc.invoked, run.name)]

RECURSIVE CollectFrom(_, _)
\* main.py:166-174: the loop over self.monitors, from all_results = []
CollectFrom(acc, runs) ==
    IF runs = <<>> THEN acc
    ELSE CollectFrom(CollectStep(acc, Head(runs)), Tail(runs))

\* every all_results a cycle can collect
Collectable ==
    {CollectFrom([results |-> <<>>, invoked |-> <<>>], runs).results : runs \in MonitorRuns}

----------------------------------------------------------------------------
(* run_monitoring_cycle, the control surface *)

max_history == 100

\* s[-n:]
LastN(s, n) == IF Len(s) <= n THEN s ELSE SubSeq(s, Len(s) - n + 1, Len(s))

\* run_manual_check, lines 73-91: what the manual check answers once its cycle
\* has returned, read from the history h
RunManualCheck(h) ==
    IF h # <<>>
    THEN [success |-> TRUE, issues |-> h[Len(h)].issues, actions |-> h[Len(h)].actions]
    ELSE [success |-> TRUE, issues |-> <<>>, actions |-> <<>>]

\* what a thread keeps of its run once the run's entry is decided: for the
\* manual check its issues and the actions written, to compare its answer with
Kept(r, issues, actions) ==
    IF r = "manual"
    THEN [NoCycle EXCEPT !.issues = issues, !.executed = actions]
    ELSE NoCycle

\* run_monitoring_cycle returns: the periodic loop's thread is free again, the
\* manual check goes on to build its answer (agent_controller.py:70-73)
Finish(r, cy) ==
    [Kept(r, cy.issues, cy.executed) EXCEPT !.pc = IF r = "manual" THEN "reply" ELSE "idle"]

\* the entry add_to_history builds (agent_controller.py:20-24)
HistoryEntry(issues, actions, t) ==
    [timestamp |-> t, issues |-> issues, actions |-> actions]

\* AgentController.add_to_history, lines 19-24, called by thread r: with issues
\* the entry is appended, and the thread goes on to limit the history's size
AppendEntry(r, issues, actions) ==
    /\ issues # <<>>
    /\ issues_history' = Append(issues_history, HistoryEntry(issues, actions, now))
    /\ cyc' = [cyc EXCEPT ![r] = [Kept(r, issues, actions) EXCEPT !.pc = "trim"]]

\* a thread enters run_monitoring_cycle (main.py:158-174): counts the check and
\* collects the monitors' results
StartCycle(r) ==
    /\ cyc[r].pc = "idle"
    /\ started < MaxCycles
    /\ r = "manual" => surface = "on"
    /\ started' = started + 1
    /\ daily_stats' = [daily_stats EXCEPT !.total_checks = @ + 1]
    /\ \E runs \in MonitorRuns :
          LET got == CollectFrom([results |-> <<>>, invoked |-> <<>>], runs)
          IN cyc' = [cyc EXCEPT ![r] = [NoCycle EXCEPT !.pc = "total", !.runs = runs,
                                                      !.invoked = got.invoked,
                                                      !.results = got.results,
                                                      !.issues = Unhealthy(got.results)]]
    /\ UNCHANGED <<execVars, harnessVars, auto_fix, allowed_actions, bot_enabled, issues_history>>

\* main.py:180
SetTotal(r) ==
    /\ cyc[r].pc = "total"
    /\ daily_stats' = [daily_stats EXCEPT !.systems_total = Len(cyc[r].results)]
    /\ cyc' = [cyc EXCEPT ![r].pc = "healthy"]
    /\ UNCHANGED <<execVars, harnessVars, auto_fix, allowed_actions, bot_enabled, issues_history,
                   started>>

\* a cycle that goes on to the decision engine also when it found no issue
SetHealthy_AlwaysDeciding(r) ==
    /\ cyc[r].pc = "healthy"
    /\ LET healthy == Len(SelectSeq(cyc[r].results, Healthy))
       IN /\ daily_stats' = [daily_stats EXCEPT !.systems_healthy = healthy,
                                                !.issues_found = @ + Len(cyc[r].issues)]
          /\ cyc' = [cyc EXCEPT ![r].pc = "decide"]
    /\ UNCHANGED <<execVars, harnessVars, auto_fix, allowed_actions, bot_enabled, issues_history,
                   started>>

\* main.py:181-191: with no issue the cycle has only the healthy notification
\* left, otherwise the issues are counted
SetHealthy(r) ==
    /\ cyc[r].pc = "healthy"
    /\ LET healthy == Len(SelectSeq(cyc[r].results, Healthy))
       IN IF cyc[r].issues = <<>>
          THEN /\ daily_stats' = [daily_stats EXCEPT !.systems_healthy = healthy]
               /\ cyc' = [cyc EXCEPT ![r].pc = "notify_healthy", ![r].results = <<>>,
                                     ![r].runs = <<>>, ![r].invoked = <<>>]
          ELSE /\ daily_stats' = [daily_stats EXCEPT !.systems_healthy = healthy,
                                     !.issues_found = @ + Len(cyc[r].issues)]
               /\ cyc' = [cyc EXCEPT ![r].pc = "decide"]
    /\ UNCHANGED <<execVars, harnessVars, auto_fix, allowed_actions, bot_enabled, issues_history,
                   started>>

\* main.py:183-185: notify_system_healthy, and the cycle returns
NotifyHealthy(r) ==
    /\ cyc[r].pc = "notify_healthy"
    /\ cyc' = [cyc EXCEPT ![r] = Finish(r, cyc[r])]
    /\ UNCHANGED <<execVars, harnessVars, auto_fix, allowed_actions, bot_enabled, daily_stats,
                   issues_history, started>>

\* main.py:195-205: the decision engine is asked; no action, or an exception,
\* leads to the history with an empty action list
Decide(r) ==
    /\ cyc[r].pc = "decide"
    /\ \E out \in AnalyzeIssues(cyc[r].results, allowed_actions) :
          cyc' = [cyc EXCEPT ![r].results = <<>>, ![r].runs = <<>>, ![r].invoked = <<>>,
                             ![r].actions = out.actions,
                             ![r].idx = IF out.actions = <<>> THEN 0 ELSE 1,
                             ![r].pc = IF out.raised THEN "failed"
                                       ELSE IF out.actions = <<>> THEN "record"
                                       ELSE "eval"]
    /\ UNCHANGED <<execVars, harnessVars, auto_fix, allowed_actions, bot_enabled, daily_stats,
                   issues_history, started>>

\* a loop that ends, and lets the history be written, before its last action
Advance_Early(cy) ==
    [cy EXCEPT !.idx = @ + 1,
               !.pc = IF cy.idx + 1 >= Len(cy.actions) THEN "record" ELSE "eval"]

\* the loop of main.py:206 moves to the next action, or ends
Advance(cy) ==
    [cy EXCEPT !.idx = @ + 1,
               !.pc = IF cy.idx + 1 > Len(cy.actions) THEN "record" ELSE "eval"]

\* a cycle that reads the auto-fix flag for the first action it may execute and
\* keeps to the answer for the actions after it
Evaluate_Stale(r) ==
    /\ cyc[r].pc = "eval"
    /\ LET a == cyc[r].actions[cyc[r].idx]
           fix == IF \E i \in DOMAIN cyc[r].routed : cyc[r].routed[i] = "executor"
                  THEN TRUE
                  ELSE auto_fix
       IN IF ~IsObject(a)
          THEN /\ cyc' = [cyc EXCEPT ![r].pc = "failed"]
               /\ UNCHANGED call
          ELSE IF a.action = "alert_only" \/ ~fix
          THEN /\ cyc' = [cyc EXCEPT ![r] = Advance([@ EXCEPT !.routed = Append(@, "critical")])]
               /\ UNCHANGED call
          ELSE /\ cyc' = [cyc EXCEPT ![r].pc = "exec", ![r].routed = Append(@, "executor")]
               /\ call' = [call EXCEPT ![r] = Enter(r, a)]
    /\ UNCHANGED <<now, attempt_history, accepted, harnessVars, auto_fix, allowed_actions,
                   bot_enabled, daily_stats, issues_history, started>>

\* a cycle that executes whatever the auto-fix flag says
Evaluate_IgnoringFlag(r) ==
    /\ cyc[r].pc = "eval"
    /\ LET a == cyc[r].actions[cyc[r].idx]
       IN IF ~IsObject(a)
          THEN /\ cyc' = [cyc EXCEPT ![r].pc = "failed"]
               /\ UNCHANGED call
          ELSE IF a.action = "alert_only"
          THEN /\ cyc' = [cyc EXCEPT ![r] = Advance([@ EXCEPT !.routed = Append(@, "critical")])]
               /\ UNCHANGED call
          ELSE /\ cyc' = [cyc EXCEPT ![r].pc = "exec", ![r].routed = Append(@, "executor")]
               /\ call' = [call EXCEPT ![r] = Enter(r, a)]
    /\ UNCHANGED <<now, attempt_history, accepted, harnessVars, auto_fix, allowed_actions,
                   bot_enabled, daily_stats, issues_history, started>>

\* main.py:207-219: an alert_only action, or any action while auto_fix is off,
\* goes to notify_critical_issue; any other action goes to execute_action;
\* an element that is no dict has no get(), line 207 raises and the cycle's
\* except clause of line 231 takes over
Evaluate(r) ==
    /\ cyc[r].pc = "eval"
    /\ LET a == cyc[r].actions[cyc[r].idx]
       IN IF ~IsObject(a)
          THEN /\ cyc' = [cyc EXCEPT ![r].pc = "failed"]
               /\ UNCHANGED call
          ELSE IF a.action = "alert_only" \/ ~auto_fix
          THEN /\ cyc' = [cyc EXCEPT ![r] = Advance([@ EXCEPT !.routed = Append(@, "critical")])]
               /\ UNCHANGED call
          ELSE /\ cyc' = [cyc EXCEPT ![r].pc = "exec", ![r].routed = Append(@, "executor")]
               /\ call' = [call EXCEPT ![r] = Enter(r, a)]
    /\ UNCHANGED <<now, attempt_history, accepted, harnessVars, auto_fix, allowed_actions,
                   bot_enabled, daily_stats, issues_history, started>>

\* a cycle that leaves its loop at the first execution that fails
AfterExec_StoppingAtFailure(r) ==
    /\ cyc[r].pc = "exec"
    /\ call[r].stage = "returned"
    /\ IF call[r].ok
       THEN /\ daily_stats' = [daily_stats EXCEPT !.actions_taken = @ + 1]
            /\ cyc' = [cyc EXCEPT ![r] =
                         Advance([@ EXCEPT !.executed = Append(@, call[r].action)])]
       ELSE /\ UNCHANGED daily_stats
            /\ cyc' = [cyc EXCEPT ![r].pc = "record"]
    /\ call' = [call EXCEPT ![r] = NoCall]
    /\ UNCHANGED <<now, attempt_history, accepted, harnessVars, auto_fix, allowed_actions,
                   bot_enabled, issues_history, started>>

\* main.py:219-225: execute_action returned; a success is counted and kept
AfterExec(r) ==
    /\ cyc[r].pc = "exec"
    /\ call[r].stage = "returned"
    /\ IF call[r].ok
       THEN /\ daily_stats' = [daily_stats EXCEPT !.actions_taken = @ + 1]
            /\ cyc' = [cyc EXCEPT ![r] =
                         Advance([@ EXCEPT !.executed = Append(@, call[r].action)])]
       ELSE /\ UNCHANGED daily_stats
            /\ cyc' = [cyc EXCEPT ![r] = Advance(@)]
    /\ call' = [call EXCEPT ![r] = NoCall]
    /\ UNCHANGED <<now, attempt_history, accepted, harnessVars, auto_fix, allowed_actions,
                   bot_enabled, issues_history, started>>

\* a cycle that lets the exception of execute_action leave it
ExecRaised_Propagating(r) ==
    /\ cyc[r].pc = "exec"
    /\ call[r].stage = "raised"
    /\ cyc' = [cyc EXCEPT ![r] = Finish(r, cyc[r])]
    /\ call' = [call EXCEPT ![r] = NoCall]
    /\ UNCHANGED <<now, attempt_history, accepted, harnessVars, auto_fix, allowed_actions,
                   bot_enabled, daily_stats, issues_history, started>>

\* main.py:231: an exception left execute_action and is caught by the cycle
ExecRaised(r) ==
    /\ cyc[r].pc = "exec"
    /\ call[r].stage = "raised"
    /\ cyc' = [cyc EXCEPT ![r].pc = "failed"]
    /\ call' = [call EXCEPT ![r] = NoCall]
    /\ UNCHANGED <<now, attempt_history, accepted, harnessVars, auto_fix, allowed_actions,
                   bot_enabled, daily_stats, issues_history, started>>

\* a cycle that writes every action it was given into its history entry
RecordCycle_AllActions(r) ==
    /\ cyc[r].pc \in {"record", "failed"}
    /\ IF bot_enabled
       THEN AppendEntry(r, cyc[r].issues, cyc[r].actions)
       ELSE /\ cyc' = [cyc EXCEPT ![r] = Finish(r, cyc[r])]
            /\ UNCHANGED issues_history
    /\ UNCHANGED <<execVars, harnessVars, auto_fix, allowed_actions, bot_enabled, daily_stats,
                   started>>

\* main.py:199-202, 227-229, 233-235: when the bot is enabled the cycle calls
\* add_to_history with its issues and the executed actions, or with no action
\* after an exception; otherwise the cycle is over
RecordCycle(r) ==
    /\ cyc[r].pc \in {"record", "failed"}
    /\ LET logged == IF cyc[r].pc = "failed" THEN <<>> ELSE cyc[r].executed
       IN IF bot_enabled
          THEN AppendEntry(r, cyc[r].issues, logged)
          ELSE /\ cyc' = [cyc EXCEPT ![r] = Finish(r, [cyc[r] EXCEPT !.executed = logged])]
               /\ UNCHANGED issues_history
    /\ UNCHANGED <<execVars, harnessVars, auto_fix, allowed_actions, bot_enabled, daily_stats,
                   started>>

\* add_to_history, line 27, right-hand side: the thread takes the last
\* max_history entries of the history as it is now
HistSlice(r) ==
    /\ cyc[r].pc = "trim"
    /\ cyc' = [cyc EXCEPT ![r].pc = "store",
                          ![r].snap = LastN(issues_history, max_history)]
    /\ UNCHANGED <<execVars, harnessVars, auto_fix, allowed_actions, bot_enabled, daily_stats,
                   issues_history, started>>

\* add_to_history, line 27, the assignment: the list taken replaces the history;
\* add_to_history and the cycle return
HistStore(r) ==
    /\ cyc[r].pc = "store"
    /\ issues_history' = cyc[r].snap
    /\ cyc' = [cyc EXCEPT ![r] = Finish(r, cyc[r])]
    /\ UNCHANGED <<execVars, harnessVars, auto_fix, allowed_actions, bot_enabled, daily_stats,
                   started>>

\* run_manual_check, lines 72-91: the manual check answers RunManualCheck of the
\* history as it is now
ManualReply(r) ==
    /\ r = "manual"
    /\ cyc[r].pc = "reply"
    /\ cyc' = [cyc EXCEPT ![r] = NoCycle]
    /\ UNCHANGED <<execVars, harnessVars, auto_fix, allowed_actions, bot_enabled, daily_stats,
                   issues_history, started>>

\* a status that calls healthy any state without an unhealthy system, also
\* the one without any system
GetStatus_NoSystemHealthy(stats) ==
    [healthy |-> stats.systems_healthy = stats.systems_total,
     attention |-> stats.systems_total - stats.systems_healthy,
     stats |-> stats]

\* AgentController.get_status, lines 33-57: is_healthy, the number of systems
\* in need of attention that the summary gives, and the counters
GetStatus(stats) ==
    [healthy |-> stats.systems_total > 0 /\ stats.systems_healthy = stats.systems_total,
     attention |-> stats.systems_total - stats.systems_healthy,
     stats |-> stats]

\* a status command that is answered only when no cycle is under way, as it
\* would be if the cycles ran on the bot's event loop
Status_BetweenCycles ==
    /\ surface = "on"
    /\ \A r \in Threads : cyc[r].pc = "idle"
    /\ answer' = [cmd |-> "status", value |-> GetStatus(daily_stats)]
    /\ UNCHANGED <<execVars, inputs, analysis, running, main, surface>>
    /\ UNCHANGED agentVars

\* the bot's status command: get_status is called and its result is answered
Status ==
    /\ surface = "on"
    /\ answer' = [cmd |-> "status", value |-> GetStatus(daily_stats)]
    /\ UNCHANGED <<execVars, inputs, analysis, running, main, surface>>
    /\ UNCHANGED agentVars

\* the bot's autofix command without argument: get_autofix_status
GetAutoFix ==
    /\ surface = "on"
    /\ answer' = [cmd |-> "autofix", value |-> auto_fix]
    /\ UNCHANGED <<execVars, inputs, analysis, running, main, surface>>
    /\ UNCHANGED agentVars

\* the limits the issues command accepts (bot.py:105)
LimitMin == 1
LimitMax == 20

\* a get_recent_issues that answers the oldest entries, h[:limit]
GetRecentIssues_Oldest(h, limit) ==
    LET stop == IF limit < 0 THEN (IF Len(h) + limit < 0 THEN 0 ELSE Len(h) + limit)
                ELSE IF limit > Len(h) THEN Len(h) ELSE limit
    IN SubSeq(h, 1, stop)

\* AgentController.get_recent_issues, line 102: h[-limit:], a slice that starts
\* at index -limit, counted from the end when negative and cut to the list
GetRecentIssues(h, limit) ==
    LET from == -limit
        start == IF from < 0 THEN (IF Len(h) + from < 0 THEN 0 ELSE Len(h) + from)
                 ELSE IF from > Len(h) THEN Len(h) ELSE from
    IN SubSeq(h, start + 1, Len(h))

\* the bot's issues command with a limit (bot.py:102-111): a limit outside
\* LimitMin..LimitMax is refused with a message, otherwise get_recent_issues
\* answers the last limit entries of the history
RecentIssues(limit) ==
    /\ surface = "on"
    /\ answer' = IF limit < LimitMin \/ limit > LimitMax
                 THEN [cmd |-> "refused", value |-> <<>>]
                 ELSE [cmd |-> "issues", value |-> GetRecentIssues(issues_history, limit)]
    /\ UNCHANGED <<execVars, inputs, analysis, running, main, surface>>
    /\ UNCHANGED agentVars

\* a switch of auto_fix that also starts the day's counters anew
SetAutoFix_Resetting(b) ==
    /\ surface = "on"
    /\ auto_fix' = b
    /\ daily_stats' = [k \in DOMAIN daily_stats |-> 0]
    /\ UNCHANGED <<execVars, harnessVars, allowed_actions, bot_enabled, issues_history, cyc,
                   started>>

\* AgentController.enable_autofix, disable_autofix
SetAutoFix(b) ==
    /\ surface = "on"
    /\ auto_fix' = b
    /\ UNCHANGED <<execVars, harnessVars, allowed_actions, bot_enabled, daily_stats,
                   issues_history, cyc, started>>

\* main.py:266-268: the loop sleeps until the next cycle; the clock advances between
\* cycles, a cycle being short against the clock's step
Sleep ==
    /\ \A r \in Threads : cyc[r].pc = "idle"
    /\ Tick
    /\ UNCHANGED <<harnessVars, auto_fix, allowed_actions, bot_enabled, daily_stats,
                   issues_history, cyc, started>>

\* the allowed_actions lists of the configurations considered
AllowLists == {{"clear_cache"}}

----------------------------------------------------------------------------
(* The executor called directly, by two threads, with any action *)


InputSets == {{A_restart, A_alert}, {A_unknown, A_bad}}

\* daily_stats with its five counters at zero (main.py:86-92, 258-264)
ZeroStats ==
    [total_checks |-> 0, issues_found |-> 0, actions_taken |-> 0,
     systems_healthy |-> 0, systems_total |-> 0]

\* no command of the control surface has been answered
NoReply == [cmd |-> "none", value |-> <<>>]

\* the agent's state after NetworkMonitorAgent.__init__ and
\* AgentController.__init__, for a given configuration, once run() has set
\* running and the bot, if enabled, is connected;
\* hist is the history, empty after construction
AgentInit(fix, allowed, bot, hist) ==
    /\ auto_fix = fix
    /\ allowed_actions = allowed
    /\ bot_enabled = bot
    /\ daily_stats = ZeroStats
    /\ issues_history = hist
    /\ cyc = [r \in Threads |-> NoCycle]
    /\ started = 0
    /\ last_summary = 0
    /\ summaries = <<>>
    /\ loop = "run"
    /\ running = TRUE
    /\ main = "run"
    /\ surface = (IF bot THEN "on" ELSE "off")
    /\ answer = NoReply

InitExec ==
    /\ now = 0
    /\ attempt_history = <<>>
    /\ accepted = <<>>
    /\ call = [c \in Threads |-> NoCall]
    /\ inputs \in InputSets
    /\ analysis = NoAnalysis
    /\ AgentInit(TRUE, {}, TRUE, <<>>)

\* a thread calls execute_action
Invoke(c) ==
    /\ call[c].stage = "none"
    /\ \E a \in inputs : call' = [call EXCEPT ![c] = Enter(c, a)]
    /\ UNCHANGED <<now, attempt_history, accepted, harnessVars>>
    /\ UNCHANGED agentVars

\* the call is over: its result has been returned, or its exception raised
Return(c) ==
    /\ call[c].stage \in {"returned", "raised"}
    /\ call' = [call EXCEPT ![c] = NoCall]
    /\ UNCHANGED <<now, attempt_history, accepted, harnessVars>>
    /\ UNCHANGED agentVars

NextExec ==
    \/ \E c \in Threads : Invoke(c)
    \/ \E c \in Threads : ExecCheck(c) /\ UNCHANGED harnessVars /\ UNCHANGED agentVars
    \/ \E c \in Threads : ExecRecord(c) /\ UNCHANGED harnessVars /\ UNCHANGED agentVars
    \/ \E c \in Threads : ExecDispatch(c) /\ UNCHANGED harnessVars /\ UNCHANGED agentVars
    \/ \E c \in Threads : Return(c)
    \/ Tick /\ UNCHANGED harnessVars /\ UNCHANGED agentVars

SpecExec == InitExec /\ [][NextExec]_vars

----------------------------------------------------------------------------
(* The executor called with actions whose parameters are the same mapping *)

\* one enable_automation action as a backend's JSON can spell it: the same
\* items in two orders, and with another entity
A_enable == MkAction("enable_automation",
                     <<<<"entity_id", "automation.lights">>, <<"url", "http://ha.local">>,
                       <<"token", "t0">>>>, "medium")
A_enable_reordered == MkAction("enable_automation",
                     <<<<"url", "http://ha.local">>, <<"entity_id", "automation.lights">>,
                       <<"token", "t0">>>>, "medium")
A_enable_other == MkAction("enable_automation",
                     <<<<"entity_id", "automation.heating">>, <<"url", "http://ha.local">>,
                       <<"token", "t0">>>>, "medium")

InitKey ==
    /\ now = 0
    /\ attempt_history = <<>>
    /\ accepted = <<>>
    /\ call = [c \in Threads |-> NoCall]
    /\ inputs = {A_enable, A_enable_reordered, A_enable_other}
    /\ analysis = NoAnalysis
    /\ AgentInit(TRUE, {}, FALSE, <<>>)

\* the cycle's thread calls execute_action, one call after the other
NextKey ==
    \/ Invoke("periodic")
    \/ ExecCheck("periodic") /\ UNCHANGED harnessVars /\ UNCHANGED agentVars
    \/ ExecRecord("periodic") /\ UNCHANGED harnessVars /\ UNCHANGED agentVars
    \/ ExecDispatch("periodic") /\ UNCHANGED harnessVars /\ UNCHANGED agentVars
    \/ Return("periodic")
    \/ Tick /\ UNCHANGED harnessVars /\ UNCHANGED agentVars

SpecKey == InitKey /\ [][NextKey]_vars

----------------------------------------------------------------------------
(* One action repeated over more than one cooldown window *)

\* the clock of this run stops after MaxSpan half windows
MaxSpan == 3

\* time passes between two calls, or inside one
Wait ==
    /\ now + TickStep <= MaxSpan * TickStep
    /\ now' = now + TickStep
    /\ UNCHANGED <<attempt_history, accepted, call>>

InitWindow ==
    /\ now = 0
    /\ attempt_history = <<>>
    /\ accepted = <<>>
    /\ call = [c \in Threads |-> NoCall]
    /\ inputs = {A_restart, A_alert}
    /\ analysis = NoAnalysis
    /\ AgentInit(TRUE, {}, FALSE, <<>>)

\* the cycle's thread calls execute_action, one call after the other
NextWindow ==
    \/ Invoke("periodic")
    \/ ExecCheck("periodic") /\ UNCHANGED harnessVars /\ UNCHANGED agentVars
    \/ ExecRecord("periodic") /\ UNCHANGED harnessVars /\ UNCHANGED agentVars
    \/ ExecDispatch("periodic") /\ UNCHANGED harnessVars /\ UNCHANGED agentVars
    \/ Return("periodic")
    \/ Wait /\ UNCHANGED harnessVars /\ UNCHANGED agentVars

SpecWindow == InitWindow /\ [][NextWindow]_vars

----------------------------------------------------------------------------
(* The history called directly, by two threads, when it is nearly full *)

pingDown == [metric |-> "network_ping", healthy |-> FALSE, message |-> "gateway unreachable"]

\* a history of n entries written before the clock's start, oldest first
OldHistory(n) == [i \in 1..n |-> HistoryEntry(<<svcDown>>, <<>>, i - n - 1)]

InitHist ==
    /\ now = 0
    /\ attempt_history = <<>>
    /\ accepted = <<>>
    /\ call = [c \in Threads |-> NoCall]
    /\ inputs = {}
    /\ analysis = NoAnalysis
    /\ \E n \in {max_history - 1, max_history} : AgentInit(TRUE, {}, TRUE, OldHistory(n))

\* thread r calls add_to_history(issues, actions)
HistInvoke(r) ==
    /\ cyc[r].pc = "idle"
    /\ started < MaxCycles
    /\ started' = started + 1
    /\ \E issues \in {<<>>, <<svcDown>>, <<pingDown>>}, actions \in {<<>>, <<A_restart>>} :
          IF issues = <<>>
          THEN UNCHANGED <<issues_history, cyc>>
          ELSE AppendEntry(r, issues, actions)
    /\ UNCHANGED <<execVars, harnessVars, auto_fix, allowed_actions, bot_enabled, daily_stats>>

NextHist ==
    \/ \E r \in Threads : HistInvoke(r) /\ UNCHANGED loopVars
    \/ \E r \in Threads : HistSlice(r) /\ UNCHANGED loopVars
    \/ \E r \in Threads : HistStore(r) /\ UNCHANGED loopVars
    \/ \E r \in Threads : ManualReply(r) /\ UNCHANGED loopVars
    \/ Tick /\ UNCHANGED harnessVars /\ UNCHANGED agentVars

SpecHist == InitHist /\ [][NextHist]_vars

----------------------------------------------------------------------------
(* The decision engine called directly, with any records, allow-list and   *)
(* backend behaviour                                                       *)

cpuHigh == [metric |-> "cpu_usage", healthy |-> FALSE, value |-> 97,
            message |-> "CPU usage high"]
diskFull == [metric |-> "disk_usage", healthy |-> FALSE, value |-> 95, partition |-> "/"]
diskEdge == [metric |-> "disk_usage", healthy |-> FALSE, value |-> 90, partition |-> "/"]
diskUnknown == [metric |-> "disk_usage", healthy |-> FALSE, partition |-> "/"]
webDown == [metric |-> "web_endpoint", healthy |-> FALSE, message |-> "HTTP 502"]
mountStale == [metric |-> "mount_status", healthy |-> FALSE, issue |-> "stale_mount",
               config |-> "cfg:nfs"]
mountGone == [metric |-> "mount_status", healthy |-> FALSE, issue |-> "not_mounted",
              config |-> "cfg:nfs"]
mountDenied == [metric |-> "mount_status", healthy |-> FALSE,
                issue |-> "permission_denied", config |-> "cfg:nfs"]

\* the health records the callers pass, healthy ones among them
AnalysisRecords ==
    {cpuOK, pingOK, cpuHigh, svcDown, diskFull, diskEdge, diskUnknown, pingDown, webDown,
     mountStale, mountGone, mountDenied}

\* the result lists the callers pass: up to MaxResults records
MaxResults == 2

AnalysisResults == UNION {[1..n -> AnalysisRecords] : n \in 0..MaxResults}

\* the allow-lists the callers pass
AnalysisAllowLists ==
    {{}, {"restart_service", "clear_disk_space"}, {"remount"}, {"unmount_remount"},
     {"restart_service", "clear_disk_space", "remount", "unmount_remount"}}

InitAnalyze ==
    /\ now = 0
    /\ attempt_history = <<>>
    /\ accepted = <<>>
    /\ call = [c \in Threads |-> NoCall]
    /\ inputs = {}
    /\ analysis = NoAnalysis
    /\ AgentInit(FALSE, {}, FALSE, <<>>)

\* a caller calls analyze_issues(all_results, allowed_actions)
AnalyzeInvoke ==
    /\ analysis.pc = "idle"
    /\ started < MaxCycles
    /\ started' = started + 1
    /\ \E results \in AnalysisResults, allowed \in AnalysisAllowLists,
          backend \in BackendBehaviours :
          analysis' = [NoAnalysis EXCEPT !.pc = "called", !.results = results,
                                         !.allowed = allowed, !.backend = backend]
    /\ UNCHANGED <<execVars, inputs, lifeVars, auto_fix, allowed_actions, bot_enabled,
                   daily_stats, issues_history, cyc, loopVars>>

\* analyze_issues returns, or raises
AnalyzeReturn ==
    /\ analysis.pc = "called"
    /\ analysis' = [analysis EXCEPT
                       !.pc = "done",
                       !.out = AnalyzeWith(analysis.results, analysis.allowed,
                                           analysis.backend)]
    /\ UNCHANGED <<execVars, inputs, lifeVars, agentVars>>

\* the caller has used the answer
AnalyzeDone ==
    /\ analysis.pc = "done"
    /\ analysis' = NoAnalysis
    /\ UNCHANGED <<execVars, inputs, lifeVars, agentVars>>

NextAnalyze == AnalyzeInvoke \/ AnalyzeReturn \/ AnalyzeDone

SpecAnalyze == InitAnalyze /\ [][NextAnalyze]_vars

----------------------------------------------------------------------------
(* The decision engine constructed for any configured provider, then called *)

\* the providers DecisionEngine.__init__ knows (decision_engine.py:16-33)
SupportedProviders == {"anthropic", "openai", "ollama"}

\* the values of ai.provider in the configurations considered
Providers == SupportedProviders \cup {"gemini"}

\* self.provider of the engine
Provider == CHOOSE p \in Providers : inputs = {p}

\* analyze_issues of an engine whose provider is p (decision_engine.py:49-67):
\* with an unhealthy record the prompt is built, then the provider's backend
\* is called; for a provider that is none of the three, [] is returned
AnalyzeAs(p, results, allowed, backend) ==
    IF Unhealthy(results) # <<>> /\ backend.kind # "unserializable"
       /\ p \notin SupportedProviders
    THEN [raised |-> FALSE, actions |-> <<>>, calls |-> 0, fallback |-> FALSE]
    ELSE AnalyzeWith(results, allowed, backend)

InitProvider ==
    /\ now = 0
    /\ attempt_history = <<>>
    /\ accepted = <<>>
    /\ call = [c \in Threads |-> NoCall]
    /\ inputs \in {{p} : p \in Providers}
    /\ analysis = [NoAnalysis EXCEPT !.pc = "new"]
    /\ AgentInit(FALSE, {}, FALSE, <<>>)

\* a constructor that takes any provider and leaves the choice to analyze_issues
Construct_Lenient ==
    /\ analysis.pc = "new"
    /\ analysis' = [analysis EXCEPT !.pc = "idle"]
    /\ UNCHANGED <<execVars, inputs, lifeVars, agentVars>>

\* DecisionEngine.__init__ (decision_engine.py:9-35), called by main.py:77: the
\* client of the provider is made, or ValueError is raised for a provider that
\* is none of the three
Construct ==
    /\ analysis.pc = "new"
    /\ analysis' = [analysis EXCEPT
                       !.pc = IF Provider \in SupportedProviders THEN "idle"
                              ELSE "init_raised"]
    /\ UNCHANGED <<execVars, inputs, lifeVars, agentVars>>

\* analyze_issues of the engine constructed returns, or raises
ProviderReturn ==
    /\ analysis.pc = "called"
    /\ analysis' = [analysis EXCEPT
                       !.pc = "done",
                       !.out = AnalyzeAs(Provider, analysis.results, analysis.allowed,
                                         analysis.backend)]
    /\ UNCHANGED <<execVars, inputs, lifeVars, agentVars>>

NextProvider == Construct \/ AnalyzeInvoke \/ ProviderReturn \/ AnalyzeDone

SpecProvider == InitProvider /\ [][NextProvider]_vars

----------------------------------------------------------------------------
(* The loop over the actions of a cycle, entered directly with any list of *)
(* actions, while the control surface switches auto_fix                    *)

\* the number of times the loop over the actions is entered
MaxEntries == 1

\* the lists of actions the decision engine may have returned
ActionLists ==
    {<<A_restart, A_restart, A_restart, A_restart, A_unknown>>,
     <<A_restart, A_bad, A_alert>>,
     <<A_alert, A_unknown, A_restart>>}

InitActions ==
    /\ now = 0
    /\ attempt_history = <<>>
    /\ accepted = <<>>
    /\ call = [c \in Threads |-> NoCall]
    /\ inputs = {}
    /\ analysis = NoAnalysis
    /\ \E fix \in BOOLEAN : AgentInit(fix, {}, TRUE, <<>>)

\* main.py:204-206: the periodic cycle has found an issue and enters its loop
\* over the actions returned for it
ActionsInvoke ==
    /\ cyc["periodic"].pc = "idle"
    /\ started < MaxEntries
    /\ started' = started + 1
    /\ \E actions \in ActionLists :
          cyc' = [cyc EXCEPT !["periodic"] =
                    [NoCycle EXCEPT !.pc = "eval", !.issues = <<svcDown>>,
                                    !.actions = actions, !.idx = 1]]
    /\ UNCHANGED <<execVars, harnessVars, auto_fix, allowed_actions, bot_enabled, daily_stats,
                   issues_history>>

NextActions ==
    \/ ActionsInvoke /\ UNCHANGED loopVars
    \/ Evaluate("periodic") /\ UNCHANGED loopVars
    \/ ExecCheck("periodic") /\ UNCHANGED harnessVars /\ UNCHANGED agentVars
    \/ ExecRecord("periodic") /\ UNCHANGED harnessVars /\ UNCHANGED agentVars
    \/ ExecDispatch("periodic") /\ UNCHANGED harnessVars /\ UNCHANGED agentVars
    \/ AfterExec("periodic") /\ UNCHANGED loopVars
    \/ ExecRaised("periodic") /\ UNCHANGED loopVars
    \/ RecordCycle("periodic") /\ UNCHANGED loopVars
    \/ HistSlice("periodic") /\ UNCHANGED loopVars
    \/ HistStore("periodic") /\ UNCHANGED loopVars
    \/ \E b \in BOOLEAN : SetAutoFix(b) /\ UNCHANGED loopVars
    \/ Sleep /\ UNCHANGED loopVars

SpecActions == InitActions /\ [][NextActions]_vars

----------------------------------------------------------------------------
(* The periodic loop with its daily summary, and manual checks, over days,  *)
(* in a configuration with auto_fix off: every action is only notified.    *)

\* here the clock advances half a summary period at a time, and only while the
\* loop is between two iterations: an iteration is short against half a day
HalfDay == SummaryPeriod \div 2

DayPasses ==
    /\ loop = "run"
    /\ now + HalfDay <= MaxTicks * SummaryPeriod
    /\ now' = now + HalfDay
    /\ UNCHANGED <<attempt_history, accepted, call>>

\* main.py:244-248 (and 336-338): while self.running, the loop starts a cycle
LoopRun ==
    /\ loop = "run"
    /\ running
    /\ StartCycle("periodic")
    /\ loop' = "cycle"
    /\ UNCHANGED <<last_summary, summaries>>

\* a loop for which the summary is due only after more than SummaryPeriod seconds
LoopCheck_Late ==
    /\ loop = "cycle"
    /\ cyc["periodic"].pc = "idle"
    /\ loop' = IF now - last_summary > SummaryPeriod THEN "summary" ELSE "sleep"
    /\ UNCHANGED <<execVars, harnessVars, auto_fix, allowed_actions, bot_enabled, daily_stats,
                   issues_history, cyc, started, last_summary, summaries>>

\* main.py:253-254: the cycle has returned; the summary is due when at least
\* SummaryPeriod seconds have passed since last_summary
LoopCheck ==
    /\ loop = "cycle"
    /\ cyc["periodic"].pc = "idle"
    /\ loop' = IF now - last_summary >= SummaryPeriod THEN "summary" ELSE "sleep"
    /\ UNCHANGED <<execVars, harnessVars, auto_fix, allowed_actions, bot_enabled, daily_stats,
                   issues_history, cyc, started, last_summary, summaries>>

\* main.py:255-256: the summary is notified with the counters as they are, and
\* last_summary becomes the present time
LoopSummary ==
    /\ loop = "summary"
    /\ summaries' = Append(summaries, daily_stats)
    /\ last_summary' = now
    /\ loop' = "reset"
    /\ UNCHANGED <<execVars, harnessVars, auto_fix, allowed_actions, bot_enabled, daily_stats,
                   issues_history, cyc, started>>

\* a reset that leaves the counter of issues as it is
LoopReset_Partial ==
    /\ loop = "reset"
    /\ daily_stats' = [ZeroStats EXCEPT !.issues_found = daily_stats.issues_found]
    /\ loop' = "sleep"
    /\ UNCHANGED <<execVars, harnessVars, auto_fix, allowed_actions, bot_enabled,
                   issues_history, cyc, started, last_summary, summaries>>

\* main.py:258-264: daily_stats becomes a new dictionary of zeros
LoopReset ==
    /\ loop = "reset"
    /\ daily_stats' = ZeroStats
    /\ loop' = "sleep"
    /\ UNCHANGED <<execVars, harnessVars, auto_fix, allowed_actions, bot_enabled,
                   issues_history, cyc, started, last_summary, summaries>>

\* main.py:266-268: the loop sleeps, then starts over
LoopSleep ==
    /\ loop = "sleep"
    /\ loop' = "run"
    /\ UNCHANGED <<execVars, harnessVars, auto_fix, allowed_actions, bot_enabled, daily_stats,
                   issues_history, cyc, started, last_summary, summaries>>

InitLoop ==
    /\ now = 0
    /\ attempt_history = <<>>
    /\ accepted = <<>>
    /\ call = [c \in Threads |-> NoCall]
    /\ inputs = {}
    /\ analysis = NoAnalysis
    /\ \E bot \in BOOLEAN : AgentInit(FALSE, {"restart_service"}, bot, <<>>)

NextLoop ==
    \/ LoopRun
    \/ StartCycle("manual") /\ UNCHANGED loopVars
    \/ \E r \in Threads : SetTotal(r) /\ UNCHANGED loopVars
    \/ \E r \in Threads : SetHealthy(r) /\ UNCHANGED loopVars
    \/ \E r \in Threads : NotifyHealthy(r) /\ UNCHANGED loopVars
    \/ \E r \in Threads : Decide(r) /\ UNCHANGED loopVars
    \/ \E r \in Threads : Evaluate(r) /\ UNCHANGED loopVars
    \/ \E r \in Threads : RecordCycle(r) /\ UNCHANGED loopVars
    \/ \E r \in Threads : HistSlice(r) /\ UNCHANGED loopVars
    \/ \E r \in Threads : HistStore(r) /\ UNCHANGED loopVars
    \/ \E r \in Threads : ManualReply(r) /\ UNCHANGED loopVars
    \/ LoopCheck
    \/ LoopSummary
    \/ LoopReset
    \/ LoopSleep
    \/ DayPasses /\ UNCHANGED harnessVars /\ UNCHANGED agentVars

SpecLoop == InitLoop /\ [][NextLoop]_vars

----------------------------------------------------------------------------
(* The status command called with the counters at any values *)

\* the largest value of a counter
MaxCount == 3

InitStatus ==
    /\ now = 0
    /\ attempt_history = <<>>
    /\ accepted = <<>>
    /\ call = [c \in Threads |-> NoCall]
    /\ inputs = {}
    /\ analysis = NoAnalysis
    /\ AgentInit(FALSE, {}, TRUE, <<>>)

\* main.py:161-188, 258-264: cycles and summaries, whatever they were, have
\* left the counters at some values
CountersChange ==
    /\ \E checks, total, healthy \in 0..MaxCount :
          daily_stats' = [ZeroStats EXCEPT !.total_checks = checks,
                                           !.systems_total = total,
                                           !.systems_healthy = healthy]
    /\ UNCHANGED <<execVars, harnessVars, auto_fix, allowed_actions, bot_enabled,
                   issues_history, cyc, started>>

NextStatus ==
    \/ CountersChange /\ UNCHANGED loopVars
    \/ Status

SpecStatus == InitStatus /\ [][NextStatus]_vars

----------------------------------------------------------------------------
(* The bot's commands while the periodic loop and the manual checks run     *)
(* their cycles, within one interval of the loop                            *)

\* the number of cycles started while the commands are answered
MaxChecks == 1

\* the limits given to the issues command
Limits == {1, 5}

InitSurface ==
    /\ now = 0
    /\ attempt_history = <<>>
    /\ accepted = <<>>
    /\ call = [c \in Threads |-> NoCall]
    /\ inputs = {}
    /\ analysis = NoAnalysis
    /\ \E allowed \in AllowLists : AgentInit(TRUE, allowed, TRUE, <<>>)

\* a command of the bot other than check
Command ==
    \/ Status
    \/ GetAutoFix
    \/ \E limit \in Limits : RecentIssues(limit)
    \/ \E b \in BOOLEAN : SetAutoFix(b) /\ UNCHANGED loopVars

NextSurface ==
    \/ \E r \in Threads : started < MaxChecks /\ StartCycle(r) /\ UNCHANGED loopVars
    \/ \E r \in Threads : SetTotal(r) /\ UNCHANGED loopVars
    \/ \E r \in Threads : SetHealthy(r) /\ UNCHANGED loopVars
    \/ \E r \in Threads : NotifyHealthy(r) /\ UNCHANGED loopVars
    \/ \E r \in Threads : Decide(r) /\ UNCHANGED loopVars
    \/ \E r \in Threads : Evaluate(r) /\ UNCHANGED loopVars
    \/ \E r \in Threads : cyc[r].pc = "exec" /\ ExecCheck(r) /\ UNCHANGED harnessVars /\ UNCHANGED agentVars
    \/ \E r \in Threads : cyc[r].pc = "exec" /\ ExecRecord(r) /\ UNCHANGED harnessVars /\ UNCHANGED agentVars
    \/ \E r \in Threads : cyc[r].pc = "exec" /\ ExecDispatch(r) /\ UNCHANGED harnessVars /\ UNCHANGED agentVars
    \/ \E r \in Threads : AfterExec(r) /\ UNCHANGED loopVars
    \/ \E r \in Threads : ExecRaised(r) /\ UNCHANGED loopVars
    \/ \E r \in Threads : RecordCycle(r) /\ UNCHANGED loopVars
    \/ \E r \in Threads : HistSlice(r) /\ UNCHANGED loopVars
    \/ \E r \in Threads : HistStore(r) /\ UNCHANGED loopVars
    \/ \E r \in Threads : ManualReply(r) /\ UNCHANGED loopVars
    \/ Command

SpecSurface == InitSurface /\ [][NextSurface]_vars

----------------------------------------------------------------------------
(* The issues command called with any limit, on histories of any length *)

\* the longest history the command is asked about
MaxEntriesKept == 21

\* the limits given to the command, inside and outside the accepted range
LimitInputs == (LimitMin - 2)..(LimitMax + 2)

InitIssues ==
    /\ now = 0
    /\ attempt_history = <<>>
    /\ accepted = <<>>
    /\ call = [c \in Threads |-> NoCall]
    /\ inputs = {}
    /\ analysis = NoAnalysis
    /\ \E n \in 0..MaxEntriesKept : AgentInit(FALSE, {}, TRUE, OldHistory(n))

NextIssues ==
    \E limit \in LimitInputs : RecentIssues(limit)

SpecIssues == InitIssues /\ [][NextIssues]_vars

----------------------------------------------------------------------------
(* The agent's run from its start to its shutdown: the periodic loop, the   *)
(* manual checks of the bot, the shutdown signal, and a notification sink   *)
(* that may raise; auto_fix is off                                          *)

\* main.py:153-156, _signal_handler: SIGINT or SIGTERM arrives
Signal ==
    /\ main = "run"
    /\ running
    /\ running' = FALSE
    /\ UNCHANGED <<main, surface, answer, inputs, analysis>>
    /\ UNCHANGED execVars
    /\ UNCHANGED agentVars

\* main.py:244 (and 336): the loop finds self.running false and ends
LoopExit ==
    /\ loop = "run"
    /\ ~running
    /\ loop' = "done"
    /\ UNCHANGED <<execVars, harnessVars, auto_fix, allowed_actions, bot_enabled, daily_stats,
                   issues_history, cyc, started, last_summary, summaries>>

\* main.py:184, 191: notify_system_healthy or notify_issue_detected raises; the
\* call is outside the try of line 194 and the exception leaves the cycle
NotifyRaises(r) ==
    /\ cyc[r].pc \in {"notify_healthy", "decide"}
    /\ cyc' = [cyc EXCEPT ![r] = [NoCycle EXCEPT !.pc = "escaped"]]
    /\ UNCHANGED <<execVars, harnessVars, auto_fix, allowed_actions, bot_enabled, daily_stats,
                   issues_history, started>>

\* a loop that ends when an exception leaves its cycle
LoopCatch_Dying ==
    /\ loop = "cycle"
    /\ cyc["periodic"].pc = "escaped"
    /\ cyc' = [cyc EXCEPT !["periodic"] = NoCycle]
    /\ loop' = "done"
    /\ UNCHANGED <<execVars, harnessVars, auto_fix, allowed_actions, bot_enabled, daily_stats,
                   issues_history, started, last_summary, summaries>>

\* main.py:249-250 (and 339-340): the loop catches what left the cycle, logs it
\* and goes on to the summary check
LoopCatch ==
    /\ loop = "cycle"
    /\ cyc["periodic"].pc = "escaped"
    /\ cyc' = [cyc EXCEPT !["periodic"] = NoCycle]
    /\ loop' = "cycle"
    /\ UNCHANGED <<execVars, harnessVars, auto_fix, allowed_actions, bot_enabled, daily_stats,
                   issues_history, started, last_summary, summaries>>

\* agent_controller.py:92-98: run_manual_check catches what left the cycle and
\* answers that the check failed
ManualCatch ==
    /\ cyc["manual"].pc = "escaped"
    /\ cyc' = [cyc EXCEPT !["manual"] = NoCycle]
    /\ UNCHANGED <<execVars, harnessVars, auto_fix, allowed_actions, bot_enabled, daily_stats,
                   issues_history, started>>

\* main.py:275-282: discord_bot.start is left by an exception, which
\* _start_discord_bot logs; the bot's task is over and no command arrives
BotStops ==
    /\ main = "run"
    /\ surface = "on"
    /\ surface' = "off"
    /\ UNCHANGED <<running, main, answer, inputs, analysis>>
    /\ UNCHANGED execVars
    /\ UNCHANGED agentVars

\* main.py:297, 305-313: gather returns when the loop's task and the bot's task
\* are over; run_async clears running and closes the bot
MainClose ==
    /\ bot_enabled
    /\ main = "run"
    /\ loop = "done"
    /\ surface # "on"
    /\ running' = FALSE
    /\ surface' = "closed"
    /\ main' = "closing"
    /\ UNCHANGED <<answer, inputs, analysis>>
    /\ UNCHANGED execVars
    /\ UNCHANGED agentVars

\* main.py:315-316 (and 361-363): notify_shutdown, after the bot is closed, or
\* without a bot after the loop has ended
MainNotify ==
    /\ \/ main = "closing"
       \/ ~bot_enabled /\ main = "run" /\ loop = "done"
    /\ main' = "stopped"
    /\ UNCHANGED <<running, surface, answer, inputs, analysis>>
    /\ UNCHANGED execVars
    /\ UNCHANGED agentVars

InitRun ==
    /\ now = 0
    /\ attempt_history = <<>>
    /\ accepted = <<>>
    /\ call = [c \in Threads |-> NoCall]
    /\ inputs = {}
    /\ analysis = NoAnalysis
    /\ \E bot \in BOOLEAN : AgentInit(FALSE, {"restart_service"}, bot, <<>>)

NextRun ==
    \/ LoopRun
    \/ StartCycle("manual") /\ UNCHANGED loopVars
    \/ \E r \in Threads : SetTotal(r) /\ UNCHANGED loopVars
    \/ \E r \in Threads : SetHealthy(r) /\ UNCHANGED loopVars
    \/ \E r \in Threads : NotifyHealthy(r) /\ UNCHANGED loopVars
    \/ \E r \in Threads : NotifyRaises(r) /\ UNCHANGED loopVars
    \/ \E r \in Threads : Decide(r) /\ UNCHANGED loopVars
    \/ \E r \in Threads : Evaluate(r) /\ UNCHANGED loopVars
    \/ \E r \in Threads : RecordCycle(r) /\ UNCHANGED loopVars
    \/ \E r \in Threads : HistSlice(r) /\ UNCHANGED loopVars
    \/ \E r \in Threads : HistStore(r) /\ UNCHANGED loopVars
    \/ \E r \in Threads : ManualReply(r) /\ UNCHANGED loopVars
    \/ ManualCatch /\ UNCHANGED loopVars
    \/ LoopCatch
    \/ LoopCheck
    \/ LoopSummary
    \/ LoopReset
    \/ LoopSleep
    \/ LoopExit
    \/ Signal
    \/ BotStops
    \/ MainClose
    \/ MainNotify
    \/ DayPasses /\ UNCHANGED harnessVars /\ UNCHANGED agentVars

SpecRun == InitRun /\ [][NextRun]_vars

\* the steps the agent takes by itself: the statements of a cycle in its pool
\* thread, of the loop's task and of run_async after gather; the signal, the
\* bot's commands, the end of the bot's connection and a failing notifier
\* come from outside
OwnSteps ==
    \/ LoopRun
    \/ \E r \in Threads : SetTotal(r) /\ UNCHANGED loopVars
    \/ \E r \in Threads : SetHealthy(r) /\ UNCHANGED loopVars
    \/ \E r \in Threads : NotifyHealthy(r) /\ UNCHANGED loopVars
    \/ \E r \in Threads : Decide(r) /\ UNCHANGED loopVars
    \/ \E r \in Threads : Evaluate(r) /\ UNCHANGED loopVars
    \/ \E r \in Threads : RecordCycle(r) /\ UNCHANGED loopVars
    \/ \E r \in Threads : HistSlice(r) /\ UNCHANGED loopVars
    \/ \E r \in Threads : HistStore(r) /\ UNCHANGED loopVars
    \/ \E r \in Threads : ManualReply(r) /\ UNCHANGED loopVars
    \/ ManualCatch /\ UNCHANGED loopVars
    \/ LoopCatch
    \/ LoopCheck
    \/ LoopSummary
    \/ LoopReset
    \/ LoopSleep
    \/ LoopExit
    \/ MainClose
    \/ MainNotify

\* the run of the agent whose threads and tasks are always scheduled again:
\* the event loop and the thread pool run whatever statement is ready
SpecRunFair == SpecRun /\ WF_vars(OwnSteps)

----------------------------------------------------------------------------
(* The periodic loop alone, with the bot enabled and auto_fix on, monitors, *)
(* backend, operations and notification sink that may raise, until the     *)
(* shutdown signal                                                         *)

InitSched ==
    /\ now = 0
    /\ attempt_history = <<>>
    /\ accepted = <<>>
    /\ call = [c \in Threads |-> NoCall]
    /\ inputs = {}
    /\ analysis = NoAnalysis
    /\ AgentInit(TRUE, {"restart_service"}, TRUE, <<>>)

\* a step of the periodic cycle
CycleStep ==
    \/ SetTotal("periodic")
    \/ SetHealthy("periodic")
    \/ NotifyHealthy("periodic")
    \/ NotifyRaises("periodic")
    \/ Decide("periodic")
    \/ Evaluate("periodic")
    \/ AfterExec("periodic")
    \/ ExecRaised("periodic")
    \/ RecordCycle("periodic")
    \/ HistSlice("periodic")
    \/ HistStore("periodic")

\* a step of execute_action, called by the periodic cycle
ExecStep ==
    \/ ExecCheck("periodic")
    \/ ExecRecord("periodic")
    \/ ExecDispatch("periodic")

\* a step of the loop itself
LoopStep ==
    \/ LoopRun
    \/ LoopCatch
    \/ LoopCheck
    \/ LoopSummary
    \/ LoopReset
    \/ LoopSleep
    \/ LoopExit

NextSched ==
    \/ CycleStep /\ UNCHANGED loopVars
    \/ ExecStep /\ UNCHANGED harnessVars /\ UNCHANGED agentVars
    \/ LoopStep
    \/ Signal
    \/ DayPasses /\ UNCHANGED harnessVars /\ UNCHANGED agentVars

SpecSched == InitSched /\ [][NextSched]_vars

----------------------------------------------------------------------------
(* The agent: the periodic loop, manual checks and the bot's commands *)

Init ==
    /\ now = 0
    /\ attempt_history = <<>>
    /\ accepted = <<>>
    /\ call = [c \in Threads |-> NoCall]
    /\ inputs = {}
    /\ analysis = NoAnalysis
    /\ \E fix \in BOOLEAN, allowed \in AllowLists, bot \in BOOLEAN :
          AgentInit(fix, allowed, bot, <<>>)

Next ==
    \/ \E r \in Threads : StartCycle(r) /\ UNCHANGED loopVars
    \/ \E r \in Threads : SetTotal(r) /\ UNCHANGED loopVars
    \/ \E r \in Threads : SetHealthy(r) /\ UNCHANGED loopVars
    \/ \E r \in Threads : NotifyHealthy(r) /\ UNCHANGED loopVars
    \/ \E r \in Threads : Decide(r) /\ UNCHANGED loopVars
    \/ \E r \in Threads : Evaluate(r) /\ UNCHANGED loopVars
    \/ \E r \in Threads : cyc[r].pc = "exec" /\ ExecCheck(r) /\ UNCHANGED harnessVars /\ UNCHANGED agentVars
    \/ \E r \in Threads : cyc[r].pc = "exec" /\ ExecRecord(r) /\ UNCHANGED harnessVars /\ UNCHANGED agentVars
    \/ \E r \in Threads : cyc[r].pc = "exec" /\ ExecDispatch(r) /\ UNCHANGED harnessVars /\ UNCHANGED agentVars
    \/ \E r \in Threads : AfterExec(r) /\ UNCHANGED loopVars
    \/ \E r \in Threads : ExecRaised(r) /\ UNCHANGED loopVars
    \/ \E r \in Threads : RecordCycle(r) /\ UNCHANGED loopVars
    \/ \E r \in Threads : HistSlice(r) /\ UNCHANGED loopVars
    \/ \E r \in Threads : HistStore(r) /\ UNCHANGED loopVars
    \/ \E r \in Threads : ManualReply(r) /\ UNCHANGED loopVars
    \/ \E b \in BOOLEAN : SetAutoFix(b) /\ UNCHANGED loopVars
    \/ Sleep /\ UNCHANGED loopVars

Spec == Init /\ [][Next]_vars

----------------------------------------------------------------------------
(* Claims about the executor, checked under SpecExec *)

\* the call of thread c was refused by the cooldown check
Refused(c) == call[c].stage = "returned" /\ call[c].msg = CooldownMsg

\* the key of the action thread c is executing
KeyOf(c) == CooldownKey(call[c].action)

\* the ledger holds an entry for key that is in cooldown at time t
InCooldown(key, t) ==
    /\ key \in DOMAIN attempt_history
    /\ attempt_history[key][2] >= max_attempts
    /\ t - attempt_history[key][1] < cooldown

\* C1: execute is refused by the cooldown check if and only if the ledger holds
\* an entry for the key with count >= max_attempts and now - last_attempt <
\* cooldown; otherwise the call goes on to record the attempt and to dispatch.
C1_RefusedIffInCooldown ==
    [][\A c \in Threads :
         /\ (call[c].stage = "check" /\ call'[c].stage # "check") =>
               IF InCooldown(KeyOf(c), now)
               THEN call'[c].stage = "returned" /\ call'[c].msg = CooldownMsg
               ELSE call'[c].stage = "record"
         /\ (call[c].stage = "record" /\ call'[c].stage # "record") =>
               call'[c].stage = "dispatch" /\ KeyOf(c) \in DOMAIN attempt_history'
         /\ (call[c].stage = "dispatch" /\ call'[c].stage # "dispatch") =>
               call'[c].stage \in {"returned", "raised"} /\ call'[c].msg # CooldownMsg
      ]_vars

C1_Witness == \E c \in Threads : Refused(c)

\* C2: a call refused by the cooldown returns failure, leaves the whole ledger
\* as it was and dispatches no operation.
C2_RefusedLeavesLedger ==
    [][\A c \in Threads :
         (call[c].stage = "check" /\ call'[c].stage = "returned") =>
             /\ attempt_history' = attempt_history
             /\ ~call'[c].ok
             /\ call'[c].op = "none"
      ]_vars

C2_Witness ==
    \E c \in Threads : Refused(c) /\ Cardinality(DOMAIN attempt_history) = 2

\* C3 (as claimed): with max_attempts = 3 and cooldown = 300, once a key's three
\* latest recorded attempts lie within the window a further call for it is
\* refused; and a call made when at least cooldown seconds have passed since the
\* key's last recorded attempt is accepted and leaves the key's count at 1.
C3_CooldownCycle ==
    [][\A c \in Threads :
         /\ (call[c].stage = "check" /\ call'[c].stage # "check") =>
               /\ (/\ KeyOf(c) \in DOMAIN accepted
                   /\ Len(accepted[KeyOf(c)]) = max_attempts
                   /\ now - accepted[KeyOf(c)][1] < cooldown)
                      => call'[c].stage = "returned"
               /\ (/\ KeyOf(c) \in DOMAIN attempt_history
                   /\ now - attempt_history[KeyOf(c)][1] >= cooldown)
                      => call'[c].stage = "record"
         /\ (call[c].stage = "record" /\ call'[c].stage # "record" /\ call[c].expired) =>
               attempt_history'[KeyOf(c)][2] = 1
      ]_vars

\* C4: every call that is not refused records one attempt for its key before
\* the dispatch, whatever the operation then does: (now, count + 1) when the
\* key has an entry less than cooldown seconds old, (now, 1) otherwise.
C4_RecordsOneAttempt ==
    [][\A c \in Threads :
         /\ (call[c].stage = "record" /\ call'[c].stage # "record") =>
               /\ call'[c].stage = "dispatch"
               /\ DOMAIN attempt_history' = DOMAIN attempt_history \cup {KeyOf(c)}
               /\ attempt_history'[KeyOf(c)] =
                     IF /\ KeyOf(c) \in DOMAIN attempt_history
                        /\ now - attempt_history[KeyOf(c)][1] < cooldown
                     THEN <<now, attempt_history[KeyOf(c)][2] + 1>>
                     ELSE <<now, 1>>
               /\ \A k \in DOMAIN attempt_history \ {KeyOf(c)} :
                     attempt_history'[k] = attempt_history[k]
         /\ (call[c].stage = "dispatch" /\ call'[c].stage # "dispatch") =>
               attempt_history' = attempt_history
      ]_vars

C4_Witness ==
    \E c \in Threads :
        /\ call[c].stage = "raised"
        /\ KeyOf(c) \in DOMAIN attempt_history
        /\ attempt_history[KeyOf(c)][2] = 2

\* C35: every attempt record holds a count between 1 and max_attempts, also
\* when the calls of a manual and of a periodic cycle overlap
C35_CountWithinBounds ==
    \A k \in DOMAIN attempt_history :
        /\ 1 <= attempt_history[k][2]
        /\ attempt_history[k][2] <= max_attempts

\* the time of the key's last accepted attempt
LastAccepted(key) == accepted[key][Len(accepted[key])]

\* C36: a refused call leaves the key's last attempt time as it was, and a
\* call checked when at least cooldown seconds have passed since the key's
\* last accepted attempt is accepted, whatever was refused in between
C36_BlockEndsWithWindow ==
    [][\A c \in Threads :
         (call[c].stage = "check" /\ call'[c].stage # "check") =>
             /\ call'[c].stage = "returned" =>
                   /\ KeyOf(c) \in DOMAIN attempt_history'
                   /\ attempt_history'[KeyOf(c)][1] = LastAccepted(KeyOf(c))
                   /\ accepted' = accepted
             /\ (/\ KeyOf(c) \in DOMAIN accepted
                 /\ now - LastAccepted(KeyOf(c)) >= cooldown)
                   => call'[c].stage = "record"
      ]_vars

\* a key was refused while in cooldown, and a call for it made a whole window
\* after its last accepted attempt has been accepted and recorded
C36_Witness ==
    \E c, d \in Threads :
        /\ Refused(d)
        /\ call[c].stage = "dispatch"
        /\ KeyOf(c) = KeyOf(d)
        /\ call[c].expired
        /\ attempt_history[KeyOf(c)] = <<cooldown, 1>>
        /\ accepted[KeyOf(c)] = <<0, 0, cooldown>>

\* C6 (as claimed): whatever the ledger holds, executing alert_only returns
\* success and runs no operation.
C6_AlertOnlyAlwaysSucceeds ==
    \A c \in Threads :
        (call[c].stage \in {"returned", "raised"} /\ call[c].action.action = "alert_only")
            => call[c].stage = "returned" /\ call[c].ok /\ call[c].op = "none"

\* C6 (amended): executing alert_only runs no operation and never raises; it
\* returns success exactly when the cooldown check does not refuse it.
C6_AlertOnlyUnlessRefused ==
    \A c \in Threads :
        (call[c].stage \in {"returned", "raised"} /\ call[c].action.action = "alert_only")
            => /\ call[c].stage = "returned"
               /\ call[c].op = "none"
               /\ call[c].ok <=> ~Refused(c)
               /\ ~Refused(c) => call[c].msg = AlertOnlyMsg

C6_Witness ==
    \E c \in Threads : Refused(c) /\ call[c].action.action = "alert_only"

----------------------------------------------------------------------------
(* The monitoring cycle and the executor *)

\* the last element of a non-empty sequence
Last(s) == s[Len(s)]

\* the action thread r's cycle is evaluating
Current(r) == cyc[r].actions[cyc[r].idx]

\* thread r takes the step of main.py:207-219 for its current action, a dict
Evaluates(r) == cyc[r].pc = "eval" /\ cyc'[r] # cyc[r] /\ cyc'[r].pc # "failed"

\* thread r's cycle writes its history entry
Records(r) == cyc[r].pc \in {"record", "failed"} /\ cyc'[r].pc # cyc[r].pc

\* C5 (as claimed): the executor's calls are serialized: the periodic loop's
\* cycle and a manually triggered cycle never both have an execute_action call
\* in progress, and two calls for one key never both stand between their
\* cooldown check and their record.
C5_Serialized ==
    /\ Cardinality({c \in Threads : InCall(c)}) <= 1
    /\ \A c, d \in Threads :
          (c # d /\ call[c].stage = "record" /\ call[d].stage = "record")
              => KeyOf(c) # KeyOf(d)

\* C8: an action evaluated by a cycle is passed to execute_action if and only
\* if its kind is not alert_only and auto_fix is on at that moment; an action
\* that is not passed is notified as a critical issue and nothing of the
\* executor changes; so with auto_fix off no action enters the executor.
C8_ExecutedIffAutoFix ==
    [][\A r \in Threads :
         /\ Evaluates(r) =>
               IF Current(r).action # "alert_only" /\ auto_fix
               THEN /\ call'[r] = Enter(r, Current(r))
                    /\ cyc'[r].routed = Append(cyc[r].routed, "executor")
               ELSE /\ call' = call
                    /\ attempt_history' = attempt_history
                    /\ cyc'[r].routed = Append(cyc[r].routed, "critical")
         /\ (call[r].stage = "none" /\ call'[r].stage # "none") =>
               Evaluates(r) /\ auto_fix /\ call'[r].action.action # "alert_only"
      ]_vars

C8_Witness ==
    \E r, q \in Threads :
        /\ \E i \in DOMAIN cyc[r].routed :
              cyc[r].routed[i] = "critical" /\ cyc[r].actions[i].action # "alert_only"
        /\ \E j \in DOMAIN cyc[q].routed : cyc[q].routed[j] = "executor"

\* the actions of thread r's cycle that were notified as critical issues while
\* auto_fix was off
NotExecuted(r) ==
    {i \in DOMAIN cyc[r].routed :
        cyc[r].routed[i] = "critical" /\ cyc[r].actions[i].action # "alert_only"}

\* C9 (as claimed): with auto_fix off, an action of a kind other than
\* alert_only is notified as a critical issue and is still listed in the
\* history entry of its cycle.
C9_NotExecutedStillListed ==
    [][\A r \in Threads :
         /\ (Evaluates(r) /\ ~auto_fix /\ Current(r).action # "alert_only") =>
               cyc'[r].routed = Append(cyc[r].routed, "critical")
         /\ (Records(r) /\ bot_enabled) =>
               \A i \in NotExecuted(r) :
                   /\ issues_history' # <<>>
                   /\ \E j \in DOMAIN Last(issues_history').actions :
                         Last(issues_history').actions[j] = cyc[r].actions[i]
      ]_vars

\* C9 (amended): with auto_fix off, an action of a kind other than alert_only
\* is notified as a critical issue and is not passed to the executor; the
\* history entry of its cycle, written when the bot is enabled, holds the
\* cycle's issues and lists only the actions the executor ran with success, at
\* most one for each action passed to the executor, and none for the action
\* that was only notified.
C9_NotExecutedNotListed ==
    [][\A r \in Threads :
         /\ (Evaluates(r) /\ ~auto_fix /\ Current(r).action # "alert_only") =>
               /\ cyc'[r].routed = Append(cyc[r].routed, "critical")
               /\ call' = call
         /\ (Records(r) /\ bot_enabled) =>
               /\ Len(issues_history') = Len(issues_history) + 1
               /\ Last(issues_history').issues = cyc[r].issues
               /\ Last(issues_history').actions =
                     IF cyc[r].pc = "failed" THEN <<>> ELSE cyc[r].executed
               /\ \A j \in DOMAIN Last(issues_history').actions :
                     \E i \in DOMAIN cyc[r].routed :
                         /\ cyc[r].routed[i] = "executor"
                         /\ cyc[r].actions[i] = Last(issues_history').actions[j]
               /\ Len(Last(issues_history').actions)
                     <= Cardinality({i \in DOMAIN cyc[r].routed : cyc[r].routed[i] = "executor"})
      ]_vars

C9_Witness ==
    \E r \in Threads :
        /\ bot_enabled
        /\ cyc[r].pc = "record"
        /\ NotExecuted(r) # {}
        /\ issues_history # <<>>
        /\ Last(issues_history).actions = <<>>

\* C10 (as claimed): the executor runs no operation for an action whose kind is
\* not in allowed_actions.
C10_OnlyAllowedKindsRun ==
    \A c \in Threads :
        call[c].op # "none" => call[c].action.action \in allowed_actions


\* C11 (as claimed): the manual check answers with the issues and the actions
\* of the run it started, never with those of an entry another cycle wrote.
C11_ReplyIsOwnRun ==
    [][\A r \in Threads :
         (cyc[r].pc = "reply" /\ cyc'[r].pc = "idle") =>
             /\ RunManualCheck(issues_history).issues = cyc[r].issues
             /\ RunManualCheck(issues_history).actions = cyc[r].executed
      ]_vars

\* C12 (as claimed): the history never holds more than max_history entries, in
\* any state, and limiting its size only ever drops its oldest entries: what a
\* thread stores is the last max_history entries of the history it replaces.
C12_BoundedFifo ==
    [][/\ Len(issues_history') <= max_history
       /\ \A r \in Threads :
             (cyc[r].pc = "store" /\ cyc'[r].pc # "store") =>
                 issues_history' = LastN(issues_history, max_history)
      ]_vars

\* C38: no entry is lost when a manual and a periodic cycle add to the history
\* at overlapping times: the entry appended last is still there after every
\* step of either thread, as the newest entry or right before a newer one
C38_NewestEntryKept ==
    [][issues_history # <<>> =>
          \E i \in 1..Len(issues_history') :
              /\ i >= Len(issues_history') - 1
              /\ issues_history'[i] = issues_history[Len(issues_history)]
      ]_vars

\* C13 (as claimed): in every state, also between a cycle's two assignments to
\* the counters, systems_healthy is at most systems_total.
C13_HealthyAtMostTotal ==
    daily_stats.systems_healthy <= daily_stats.systems_total

----------------------------------------------------------------------------
(* Claims about the daily summary, checked under SpecLoop *)

\* the counters that only grow between two resets
Cumulative == {"total_checks", "issues_found", "actions_taken"}

\* C14: when the daily summary fires, the summary is notified with the
\* counters as they are before the reset and last_summary is set, then the five
\* counters become 0 in one step; no other step lowers a cumulative counter, so
\* no state has only some of the counters reset.
C14_ResetIsAtomic ==
    [][/\ (loop = "summary" /\ loop' # "summary") =>
             /\ summaries' = Append(summaries, daily_stats)
             /\ daily_stats' = daily_stats
             /\ last_summary' = now
       /\ (loop = "reset" /\ loop' # "reset") =>
             /\ daily_stats' = ZeroStats
             /\ last_summary = now
             /\ UNCHANGED summaries
       /\ (loop' = loop \/ loop # "reset") =>
             \A f \in Cumulative : daily_stats'[f] >= daily_stats[f]
      ]_vars

C14_Witness ==
    /\ loop = "sleep"
    /\ daily_stats = ZeroStats
    /\ summaries # <<>>
    /\ summaries[Len(summaries)].issues_found > 0
    /\ summaries[Len(summaries)].systems_total > 0
    /\ cyc["manual"].pc = "decide"

----------------------------------------------------------------------------
(* Claims about the collecting of the monitors' records, checked under Spec *)

\* thread r enters a cycle and collects
Collects(r) == cyc[r].pc = "idle" /\ cyc'[r].pc # "idle"

\* the records of the first n run_checks calls that did not raise, in order
RECURSIVE KeptRecords(_, _)
KeptRecords(runs, n) ==
    IF n = 0 THEN <<>>
    ELSE KeptRecords(runs, n - 1) \o (IF runs[n].raised THEN <<>> ELSE runs[n].records)

\* C20: a monitor whose run_checks raises adds nothing to the cycle's results
\* and changes nothing else: every monitor is called, in order, the records of
\* those that returned are all kept, and the cycle goes on to count and
\* evaluate what it collected.
C20_RaisingMonitorOnlyExcluded ==
    [][\A r \in Threads :
         Collects(r) =>
             /\ cyc'[r].pc = "total"
             /\ cyc'[r].invoked = Monitors
             /\ cyc'[r].results = KeptRecords(cyc'[r].runs, Len(Monitors))
             /\ cyc'[r].issues = SelectSeq(cyc'[r].results, LAMBDA rec : ~rec.healthy)
             /\ daily_stats' = [daily_stats EXCEPT !.total_checks = @ + 1]
             /\ UNCHANGED <<execVars, auto_fix, allowed_actions, bot_enabled, issues_history>>
      ]_vars

C20_Witness ==
    \E r, q \in Threads :
        /\ cyc[r].pc = "decide"
        /\ cyc[r].runs[2].raised
        /\ cyc[r].results = cyc[r].runs[1].records
        /\ cyc[r].issues # <<>>
        /\ cyc[q].pc = "healthy"
        /\ cyc[q].runs[1].raised
        /\ cyc[q].results = cyc[q].runs[2].records
        /\ cyc[q].results # <<>>

----------------------------------------------------------------------------
(* Claims about the course of a cycle, checked under Spec *)

\* thread r's cycle has collected its records and none is unhealthy
HealthyCycle(r) ==
    /\ cyc[r].pc \in {"total", "healthy", "notify_healthy"}
    /\ cyc[r].issues = <<>>

\* C21: a cycle whose records hold no unhealthy one notifies that the system
\* is healthy and returns: it does not ask the decision engine, does not call
\* the executor, leaves issues_found and actions_taken as they are and appends
\* no history entry.
C21_HealthyCycleReturns ==
    [][\A r \in Threads :
         (HealthyCycle(r) /\ cyc'[r] # cyc[r]) =>
             /\ (cyc[r].pc = "total") => (cyc'[r].pc = "healthy")
             /\ (cyc[r].pc = "healthy") => (cyc'[r].pc = "notify_healthy")
             /\ (cyc[r].pc = "notify_healthy") => (cyc'[r].pc \in {"idle", "reply"})
             /\ cyc'[r].actions = <<>>
             /\ call' = call
             /\ attempt_history' = attempt_history
             /\ daily_stats'.issues_found = daily_stats.issues_found
             /\ daily_stats'.actions_taken = daily_stats.actions_taken
             /\ issues_history' = issues_history
      ]_vars

C21_Witness ==
    /\ bot_enabled
    /\ started = 1
    /\ \A r \in Threads : cyc[r].pc = "idle"
    /\ daily_stats.total_checks = 1
    /\ daily_stats.systems_total = 2
    /\ daily_stats.systems_healthy = 2
    /\ daily_stats.issues_found = 0
    /\ issues_history = <<>>

\* thread r's cycle found issues and is deciding or executing
Handling(r) == cyc[r].pc \in {"decide", "eval", "exec"}

----------------------------------------------------------------------------
(* Claims about the cooldown key, checked under SpecKey *)

\* two parameter dicts that are equal as mappings: the same items
SameMapping(p, q) ==
    {p[i] : i \in 1..Len(p)} = {q[i] : i \in 1..Len(q)}

\* C33: two actions of the same kind whose parameters are equal mappings, in
\* whatever order the items were inserted, share one attempt record, and two
\* actions of different kind or with a different parameter value share none
C33_OneRecordPerKindAndMapping ==
    \A a, b \in inputs :
        LET same == a.action = b.action /\ SameMapping(a.action_params, b.action_params)
        IN /\ same /\ CooldownKey(a) \in DOMAIN attempt_history =>
                 /\ CooldownKey(b) \in DOMAIN attempt_history
                 /\ attempt_history[CooldownKey(b)] = attempt_history[CooldownKey(a)]
           /\ ~same => CooldownKey(a) # CooldownKey(b)

----------------------------------------------------------------------------
(* Claims about the window of the cooldown, checked under SpecWindow *)

\* the check of thread c's call has just refused it
Blocks(c) == call[c].stage = "check" /\ call'[c].stage = "returned"

\* C37 (as claimed): a call is refused only if the key's max_attempts latest
\* accepted attempts all lie in the window before the call, none of them more
\* than cooldown seconds back
C37_BlockedOnlyByAttemptsInWindow ==
    [][\A c \in Threads :
         Blocks(c) =>
             /\ KeyOf(c) \in DOMAIN accepted
             /\ Len(accepted[KeyOf(c)]) = max_attempts
             /\ \A i \in 1..max_attempts : now - accepted[KeyOf(c)][i] <= cooldown
      ]_vars

\* C37 (amended): a call is refused only if the key has max_attempts accepted
\* attempts each less than cooldown seconds after the one before, the last of
\* them less than cooldown seconds before the call
C37_BlockedOnlyByChain ==
    [][\A c \in Threads :
         Blocks(c) =>
             /\ KeyOf(c) \in DOMAIN accepted
             /\ Len(accepted[KeyOf(c)]) = max_attempts
             /\ \A i \in 1..(max_attempts - 1) :
                   accepted[KeyOf(c)][i + 1] - accepted[KeyOf(c)][i] < cooldown
             /\ now - LastAccepted(KeyOf(c)) < cooldown
      ]_vars

\* a call was refused although the attempts that count against it are spread
\* over more than one window
C37_Witness ==
    \E c \in Threads :
        /\ Refused(c)
        /\ accepted[KeyOf(c)] = <<0, TickStep, 2 * TickStep>>
        /\ now = 3 * TickStep

----------------------------------------------------------------------------
(* Claims about the configured provider, checked under SpecProvider *)

----------------------------------------------------------------------------
(* Claims about the loop over the actions, checked under SpecActions *)

\* execute_action has returned a failure to the cycle of thread r: the
\* operation failed, the action is unknown, or the cooldown refused it
FailedExecution(r) ==
    cyc[r].pc = "exec" /\ call[r].stage = "returned" /\ ~call[r].ok

\* C23: a failed execution, be it a failure of the operation or a refusal by
\* the cooldown, does not end the cycle's loop: the cycle goes on to the next
\* action of the list, or to the history when the list is over, and every
\* evaluation is that of the next action in order, all the actions before it
\* having been evaluated
C23_FailureDoesNotAbort ==
    [][\A r \in Threads :
         /\ (FailedExecution(r) /\ cyc'[r] # cyc[r]) =>
               /\ cyc'[r].actions = cyc[r].actions
               /\ cyc'[r].executed = cyc[r].executed
               /\ cyc'[r].idx = cyc[r].idx + 1
               /\ cyc'[r].pc = IF cyc[r].idx < Len(cyc[r].actions) THEN "eval" ELSE "record"
         /\ Evaluates(r) =>
               /\ Len(cyc'[r].routed) = cyc[r].idx
               /\ cyc'[r].actions = cyc[r].actions
               /\ (cyc'[r].pc = "exec") => (call'[r].action = cyc[r].actions[cyc[r].idx])
      ]_vars

\* three restarts succeeded, the fourth was refused by the cooldown, and the
\* unknown action after it was still evaluated and failed
C23_Witness ==
    /\ cyc["periodic"].pc = "record"
    /\ now = 0
    /\ cyc["periodic"].actions = <<A_restart, A_restart, A_restart, A_restart, A_unknown>>
    /\ cyc["periodic"].executed = <<A_restart, A_restart, A_restart>>
    /\ cyc["periodic"].routed = [i \in 1..5 |-> "executor"]

\* the cycle of thread r takes a success back from execute_action
Succeeds(r) ==
    /\ cyc[r].pc = "exec"
    /\ call[r].stage = "returned"
    /\ call[r].ok
    /\ cyc'[r] # cyc[r]

\* C24: actions_taken grows by one in each step in which a cycle takes a
\* success back from the executor and is left alone by every other step
\* (failed and refused executions, alert_only actions, actions not executed
\* because auto_fix is off), and the history entry a cycle writes lists
\* exactly the actions the cycle executed with success
C24_TakenAndListedAreSuccesses ==
    [][/\ daily_stats'.actions_taken =
             daily_stats.actions_taken + Cardinality({r \in Threads : Succeeds(r)})
       /\ \A r \in Threads :
             (Records(r) /\ bot_enabled) =>
                 Last(issues_history').actions = cyc[r].executed
      ]_vars

\* C25: the flag the control surface writes is the flag every evaluation
\* reads: a write changes auto_fix in the very step of the command and nothing
\* of a cycle changes it back, and an action enters execute_action only in a
\* step taken while auto_fix is on; so from the write of false until a write
\* of true no evaluation, of a new cycle or of the rest of a cycle under way,
\* invokes the executor
C25_WriteSeenByNextEvaluation ==
    [][/\ (auto_fix' # auto_fix) => (cyc' = cyc /\ call' = call)
       /\ \A r \in Threads :
             /\ (call[r].stage = "none" /\ call'[r].stage # "none") => auto_fix
             /\ (Evaluates(r) /\ ~auto_fix) =>
                   /\ call' = call
                   /\ cyc'[r].idx = cyc[r].idx + 1
      ]_vars

\* auto_fix was switched off in the middle of a cycle: an action of the cycle
\* was executed and a later one, not an alert_only, was not
C25_Witness ==
    /\ ~auto_fix
    /\ \E i, j \in DOMAIN cyc["periodic"].routed :
          /\ i < j
          /\ cyc["periodic"].routed[i] = "executor"
          /\ cyc["periodic"].routed[j] = "critical"
          /\ cyc["periodic"].actions[j].action # "alert_only"

----------------------------------------------------------------------------
(* Claims about the shutdown, checked under SpecRun *)

\* thread r is inside run_monitoring_cycle
InCycle(r) == cyc[r].pc \notin {"idle", "reply", "escaped"}

\* C26: after the shutdown signal no cycle is started; a cycle under way ends
\* only at its own end; the control surface is closed only when no cycle is
\* under way; and the shutdown notification is emitted only when no cycle is
\* under way and the control surface accepts no command
C26_ShutdownOrder ==
    [][/\ \A r \in Threads :
             /\ (~InCycle(r) /\ InCycle(r)') => running
             /\ (InCycle(r) /\ ~InCycle(r)') =>
                   cyc[r].pc \in {"notify_healthy", "decide", "record", "failed", "store"}
       /\ (main = "run" /\ main' = "closing") =>
             /\ \A r \in Threads : ~InCycle(r)
             /\ ~running
       /\ (main # "stopped" /\ main' = "stopped") =>
             /\ \A r \in Threads : ~InCycle(r)
             /\ surface # "on"
             /\ ~running
      ]_vars

\* C40: once the shutdown signal has cleared the running flag while the
\* control surface is on, the agent by its own steps comes to stop the control
\* surface and to emit the shutdown notification
C40_ShutdownCompletes ==
    (~running /\ surface = "on") ~> (surface = "closed" /\ main = "stopped")

----------------------------------------------------------------------------
(* Claims about the bot's commands, checked under SpecSurface *)

\* C28: whenever a cycle, periodic or manual, is under way and the bot is
\* connected, each of the commands status, autofix (read, on, off) and issues
\* can be taken at once, in one step, whatever the cycle is doing
C28_CommandsNeverWait ==
    (surface = "on" /\ \E r \in Threads : InCycle(r)) =>
        /\ ENABLED Status
        /\ ENABLED GetAutoFix
        /\ \A b \in BOOLEAN : ENABLED (SetAutoFix(b) /\ UNCHANGED loopVars)
        /\ \A limit \in Limits : ENABLED RecentIssues(limit)

\* the status was answered with the check of the cycle under way counted,
\* before that cycle stored its number of systems
C28_Witness ==
    /\ started = 1
    /\ cyc["periodic"].pc = "total"
    /\ answer.cmd = "status"
    /\ answer.value.stats.total_checks = 1

\* C29: a step that answers status, issues or the autofix question changes no
\* field of the agent's state; a step that changes auto_fix changes no other
\* field and no cycle; the counters and the history change only in a step of
\* a cycle or in the reset that follows the daily summary
C29_SingleWriter ==
    [][/\ (answer'.cmd # answer.cmd \/ answer'.value # answer.value) =>
             /\ UNCHANGED <<auto_fix, daily_stats, issues_history, last_summary>>
             /\ UNCHANGED <<cyc, attempt_history>>
       /\ (auto_fix' # auto_fix) =>
             /\ UNCHANGED <<daily_stats, issues_history, last_summary>>
             /\ UNCHANGED <<cyc, attempt_history>>
             /\ answer'.cmd = answer.cmd
       /\ (daily_stats' # daily_stats \/ issues_history' # issues_history) =>
             \/ \E r \in Threads : cyc'[r] # cyc[r]
             \/ loop = "reset" /\ loop' = "sleep"
      ]_vars

\* auto_fix was switched off and the issues command has answered the one entry
\* of the history, which is still there
C29_Witness ==
    /\ ~auto_fix
    /\ answer.cmd = "issues"
    /\ Len(issues_history) = 1
    /\ answer.value = issues_history
    /\ daily_stats.total_checks = 1
    /\ daily_stats.issues_found = 1

----------------------------------------------------------------------------
(* Claims about the periodic loop and its failures, checked under SpecSched *)

\* the phase of a cycle at each of its positions: 0 idle, 2 evaluating (the
\* counters), 3 deciding, 4 executing, 5 recording, 6 left, by a return to the
\* manual check or by an exception; collecting is the step that starts the
\* cycle
Phase(pc) ==
    CASE pc = "idle" -> 0
      [] pc \in {"total", "healthy", "notify_healthy"} -> 2
      [] pc = "decide" -> 3
      [] pc \in {"eval", "exec"} -> 4
      [] pc \in {"record", "failed", "trim", "store"} -> 5
      [] OTHER -> 6

\* C32: a cycle goes through its phases in order and never back, until it
\* returns; the decision engine is asked only at the position reached after
\* every monitor was invoked and both health counters were stored; an action
\* enters execute_action only from the loop over the actions the engine
\* returned; and the history entry is written only when the loop is over, all
\* its actions evaluated, or was left by an exception, and no evaluation
\* follows it
C32_PhasesInOrder ==
    [][\A r \in Threads :
         /\ (cyc'[r] # cyc[r]) =>
               \/ Phase(cyc'[r].pc) >= Phase(cyc[r].pc)
               \/ /\ cyc'[r].pc = "idle"
                  /\ cyc[r].pc \in {"notify_healthy", "record", "failed", "store", "reply",
                                     "escaped"}
         /\ (cyc[r].pc = "idle" /\ cyc'[r].pc # "idle") =>
               /\ cyc'[r].pc = "total"
               /\ cyc'[r].invoked = Monitors
         /\ (cyc[r].pc = "total" /\ cyc'[r] # cyc[r]) =>
               (cyc'[r].pc = "healthy" /\ cyc'[r].invoked = Monitors)
         /\ (cyc[r].pc = "healthy" /\ cyc'[r] # cyc[r]) =>
               cyc'[r].pc \in {"decide", "notify_healthy"}
         /\ (cyc'[r].pc = "decide") =>
               (cyc[r].pc \in {"healthy", "decide"} /\ cyc'[r].invoked = Monitors)
         /\ (call[r].stage = "none" /\ call'[r].stage # "none") =>
               /\ cyc[r].pc = "eval"
               /\ cyc[r].actions # <<>>
               /\ cyc[r].results = <<>>
         /\ Records(r) =>
               \/ cyc[r].pc = "failed"
               \/ cyc[r].actions = <<>>
               \/ /\ cyc[r].idx = Len(cyc[r].actions) + 1
                  /\ Len(cyc[r].routed) = Len(cyc[r].actions)
      ]_vars

\* the first cycle has gone through all the phases: it executed an action
\* with success and has just appended its history entry
C32_Witness ==
    /\ started = 1
    /\ cyc["periodic"].pc = "trim"
    /\ Len(issues_history) = 1
    /\ issues_history[1].actions # <<>>
    /\ daily_stats.actions_taken = 1
    /\ daily_stats.systems_total >= 1

\* C27: the loop ends only when the shutdown signal has cleared running;
\* whatever leaves a cycle is caught by the loop, and a failure caught inside
\* the cycle lets the cycle return; after the cycle, however it ended, the loop
\* checks the summary, sleeps, and while running starts the next cycle; and as
\* long as running holds the loop or its cycle has a step to take
C27_SchedulerSurvives ==
    [][/\ (loop # "done" /\ loop' = "done") => (~running /\ loop = "run")
       /\ (cyc["periodic"].pc = "escaped" /\ cyc'["periodic"] # cyc["periodic"]) =>
             (cyc'["periodic"].pc = "idle" /\ loop' = "cycle")
       /\ (cyc["periodic"].pc = "failed" /\ cyc'["periodic"] # cyc["periodic"]) =>
             (cyc'["periodic"].pc = "trim" /\ loop' = "cycle")
       /\ (loop = "cycle" /\ loop' # "cycle") =>
             (cyc["periodic"].pc = "idle" /\ loop' \in {"summary", "sleep"})
       /\ (loop = "summary" /\ loop' # loop) => loop' = "reset"
       /\ (loop = "reset" /\ loop' # loop) => loop' = "sleep"
       /\ (loop = "sleep" /\ loop' # loop) => loop' = "run"
       /\ (loop = "run" /\ loop' # loop /\ running) =>
             (loop' = "cycle" /\ cyc'["periodic"].pc = "total")
       /\ (running /\ started < MaxCycles) =>
             ENABLED (\/ CycleStep /\ UNCHANGED loopVars
                      \/ ExecStep /\ UNCHANGED harnessVars /\ UNCHANGED agentVars
                      \/ LoopStep)
      ]_vars

\* the first cycle counted an issue and was left by an exception of the
\* notification, so that nothing was written to the history; the loop has
\* started its second cycle
C27_Witness ==
    /\ running
    /\ bot_enabled
    /\ started = 2
    /\ loop = "cycle"
    /\ cyc["periodic"].pc = "total"
    /\ daily_stats.total_checks = 2
    /\ daily_stats.issues_found = 1
    /\ issues_history = <<>>

----------------------------------------------------------------------------
(* Claims about the status command, checked under SpecStatus *)

\* C30: whatever the counters are, the status answered reports healthy exactly
\* when there is at least one system and as many healthy systems as systems;
\* with all counters at zero, as before the first cycle and after a summary,
\* it reports not healthy
C30_HealthyIffAllOfSome ==
    [][(answer' # answer) =>
          /\ answer'.cmd = "status"
          /\ answer'.value.stats = daily_stats
          /\ answer'.value.healthy =
                (daily_stats.systems_total >= 1
                    /\ daily_stats.systems_healthy = daily_stats.systems_total)
          /\ (daily_stats = ZeroStats) => ~answer'.value.healthy
      ]_vars

\* the status asked with all counters at zero has answered not healthy
C30_Witness ==
    /\ answer.cmd = "status"
    /\ answer.value.stats = ZeroStats
    /\ ~answer.value.healthy
    /\ daily_stats = ZeroStats

\* C39: when a cycle ends by emitting the healthy notification and no other
\* cycle is under way, the status computed from the counters it leaves, which
\* is what the status command answers right after, reports healthy, also when
\* no monitor has given a record
C39_HealthyNoticeAgreesWithStatus ==
    [][\A r \in Threads :
         (/\ cyc[r].pc = "notify_healthy"
          /\ cyc'[r].pc # "notify_healthy"
          /\ \A o \in Threads \ {r} : ~InCycle(o))
            => GetStatus(daily_stats').healthy
      ]_vars

----------------------------------------------------------------------------
(* Claims about the issues command, checked under SpecIssues *)

\* C31: for every limit from 1 to 20 the issues command answers the last
\* min(limit, length) entries of the history, in the order they were appended;
\* with a limit outside 1..20 it refuses and answers no entry
C31_LastEntriesInOrder ==
    [][\A limit \in LimitInputs :
          RecentIssues(limit) =>
             IF limit \in 1..20
             THEN LET n == IF limit < Len(issues_history) THEN limit
                           ELSE Len(issues_history)
                  IN /\ answer'.cmd = "issues"
                     /\ Len(answer'.value) = n
                     /\ \A i \in 1..n :
                           answer'.value[i] = issues_history[Len(issues_history) - n + i]
             ELSE /\ answer'.cmd = "refused"
                  /\ answer'.value = <<>>
      ]_vars

\* the command was asked for 20 entries of a history of 21 and has answered
\* all but the oldest
C31_Witness ==
    /\ Len(issues_history) = 21
    /\ answer.cmd = "issues"
    /\ Len(answer.value) = 20
    /\ answer.value[1] = issues_history[2]
    /\ answer.value[20] = issues_history[21]

----------------------------------------------------------------------------
(* Claims about the decision engine, checked under SpecAnalyze *)

\* the analyze_issues call of the direct caller is over
Analyzed == analysis.pc = "done"

\* the records passed hold no unhealthy one
AllHealthy == \A i \in DOMAIN analysis.results : analysis.results[i].healthy

\* C16: when no record passed to analyze_issues is unhealthy, the empty list of
\* records included, it returns the empty list and the backend is not called.
C16_HealthyNeedsNoBackend ==
    (Analyzed /\ AllHealthy) =>
        /\ ~analysis.out.raised
        /\ analysis.out.actions = <<>>
        /\ analysis.out.calls = 0

C16_Witness ==
    /\ Analyzed
    /\ AllHealthy
    /\ Len(analysis.results) = MaxResults
    /\ analysis.backend.kind = "list"
    /\ analysis.out.calls = 0

\* the unhealthy records among those passed, in their order
PassedIssues == SelectSeq(analysis.results, LAMBDA rec : ~rec.healthy)

\* C17: when the backend call raises, analyze_issues returns what the
\* rule-based fallback gives for the unhealthy records and the allow-list, and
\* the backend has been called once, not again.
C17_BackendErrorGivesFallback ==
    (Analyzed /\ ~AllHealthy /\ analysis.backend.kind = "error") =>
        /\ ~analysis.out.raised
        /\ analysis.out.fallback
        /\ analysis.out.actions = FallbackAnalysis(PassedIssues, analysis.allowed)
        /\ analysis.out.calls = 1

C17_Witness ==
    /\ Analyzed
    /\ analysis.backend.kind = "error"
    /\ Len(PassedIssues) < Len(analysis.results)
    /\ analysis.out.fallback
    /\ Len(analysis.out.actions) = 1
    /\ analysis.out.actions[1].action = "unmount_remount"

\* the backend answered, and its answer is no JSON list of actions: it is no
\* JSON at all, or one JSON value of another type, or no text
Malformed == analysis.backend.kind \in {"text", "value", "none"}

\* C18 (as claimed): when the backend answers and the answer does not parse
\* into a list of actions, analyze_issues returns the empty list and the
\* rule-based fallback is not called.
C18_MalformedGivesNothing ==
    (Analyzed /\ ~AllHealthy /\ Malformed) =>
        /\ ~analysis.out.raised
        /\ analysis.out.actions = <<>>
        /\ ~analysis.out.fallback

\* the action of the rule table: its kind, its one parameter if any, its severity
Rule(kind, key, value, severity) ==
    <<[action |-> kind,
       action_params |-> IF key = "" THEN <<>> ELSE <<<<key, value>>>>,
       severity |-> severity]>>

\* the rule table of the fallback for one unhealthy record: the first rule
\* that matches gives one action, or none
RuleTable(rec, allowed) ==
    CASE rec.metric = "service_status" ->
           IF "restart_service" \in allowed
           THEN Rule("restart_service", "service", rec.service, "high")
           ELSE <<>>
      [] rec.metric = "disk_usage" ->
           IF "value" \in DOMAIN rec /\ rec.value > 90 /\ "clear_disk_space" \in allowed
           THEN Rule("clear_disk_space", "partition", rec.partition, "high")
           ELSE <<>>
      [] rec.metric = "network_ping" -> Rule("alert_only", "", "", "medium")
      [] rec.metric = "web_endpoint" -> Rule("alert_only", "", "", "high")
      [] rec.metric = "mount_status" ->
           CASE rec.issue = "stale_mount" /\ "remount" \in allowed ->
                  Rule("remount", "mount_config", rec.config, "high")
             [] rec.issue = "not_mounted" /\ "unmount_remount" \in allowed ->
                  Rule("unmount_remount", "mount_config", rec.config, "high")
             [] OTHER -> Rule("alert_only", "", "", "high")
      [] OTHER -> <<>>

\* the rule table applied to the first n of the unhealthy records passed
RECURSIVE RulesApplied(_)
RulesApplied(n) ==
    IF n = 0 THEN <<>>
    ELSE RulesApplied(n - 1) \o RuleTable(PassedIssues[n], analysis.allowed)

\* C19: the list the rule-based fallback returns is the rule table applied to
\* each unhealthy record in order, one action at most for a record:
\* service_status gives restart_service {service} high when allowed, else
\* nothing; disk_usage above 90 gives clear_disk_space {partition} high when
\* allowed, else nothing; network_ping gives alert_only medium; web_endpoint
\* gives alert_only high; mount_status gives remount {mount_config} for a stale
\* mount when allowed, unmount_remount {mount_config} for a mount that is not
\* mounted when allowed, else alert_only high; any other metric gives nothing.
C19_FallbackIsRuleTable ==
    (Analyzed /\ analysis.out.fallback) =>
        analysis.out.actions = RulesApplied(Len(PassedIssues))

C19_Witness ==
    /\ Analyzed
    /\ analysis.out.fallback
    /\ Len(PassedIssues) = 2
    /\ PassedIssues[1].metric = "mount_status"
    /\ PassedIssues[1].issue = "stale_mount"
    /\ "remount" \notin analysis.allowed
    /\ PassedIssues[2].metric = "disk_usage"
    /\ Len(analysis.out.actions) = 2
    /\ analysis.out.actions[1].action = "alert_only"
    /\ analysis.out.actions[2].action = "clear_disk_space"

=============================================================================
